---- MODULE Spec2Model ----
(***************************************************************************)
(* A model of the cycling trip planner agent: the per-session conversation *)
(* memory (src/agent/memory.py), the tool-calling loop, the response       *)
(* finalizer and the turn pipeline of CyclingTripAgent (src/agent/agent.py)*)
(* and the concurrent requests of the HTTP layer (src/api/main.py).        *)
(***************************************************************************)
EXTENDS Integers, Sequences, FiniteSets, TLC

(***************************************************************************)
(* Bounds of the model.                                                    *)
(***************************************************************************)
\* largest max_messages the memory is constructed with
MaxCap == 4
\* number of append_message calls explored by the memory specification
MaxAppends == 4
\* number of update_state calls explored by the session-state specification
MaxUpdates == 3

(***************************************************************************)
(* Values.                                                                 *)
(***************************************************************************)
ConvIds == {"c1", "c2"}
Roles == {"user", "assistant"}
Texts == {"a", "b"}
\* MemoryMessage(role, content): content is one text block, kept as its text
MemoryMessage == [role : Roles, text : Texts]
\* keys of a session's state map: the one the agent writes and one more
StateKeys == {"last_plan_summary", "units"}
NoValue == "<none>"

VARIABLES
    max_messages,   \* InMemoryConversationMemory.max_messages
    mem_messages,   \* InMemoryConversationMemory._messages, by conversation id
    mem_state,      \* InMemoryConversationMemory._state, by conversation id
    appended,       \* history: every message ever appended, by conversation id
    \* one run of CyclingTripAgent._run_tool_loop
    lpc,            \* position in _run_tool_loop
    messages,       \* the transcript list passed to and grown by the loop
    plan,           \* plan: tool name -> accumulated output(s)
    tool_round,     \* tool_round
    tool_calls,     \* tool_calls: tool_use blocks of the latest inspected response
    last_response,  \* last_response.content
    raw_response,   \* history: content of the latest response as the gateway gave it
    llm_calls,      \* history: number of _call_llm requests issued
    next_id,        \* the next tool_use id the gateway hands out
    executor_calls, \* history: ids of the calls whose tool function was invoked
    tool_outputs,   \* history: tool name -> outputs of its successful calls, in order
    \* the result of CyclingTripAgent._finalize_response
    structured,     \* what _call_llm_structured returned
    reply_text,     \* reply_text
    questions,      \* questions
    trip_plan,      \* trip_plan
    \* the requests in flight: one CyclingTripAgent.chat coroutine each
    t_pc,           \* where the coroutine of the turn is suspended
    t_conv,         \* conversation_id
    t_context,      \* messages as built by _build_initial_messages
    t_round,        \* tool_round of the turn's loop
    t_route,        \* whether a get_route call of the turn succeeded
    state_log,      \* history: the update_state calls (conversation id, map), in order
    \* one call of a data tool (src/tools)
    tl_pc,          \* "idle", or the tool that was called
    tl_req,         \* the request of the call
    tl_env,         \* what the external services answer during the call
    tl_res,         \* the outcome of the call
    \* one run of _build_trip_plan and _apply_adjustments
    as_pc,          \* "idle", "assembled" or "adjusted"
    as_plan,        \* plan: tool name -> accumulated output(s)
    as_trip,        \* the TripPlan (or None) _build_trip_plan returned
    as_adj,         \* the Adjustments applied
    as_out,         \* the TripPlan _apply_adjustments returned
    \* one GET /chat/stream request (api/main.py chat_stream)
    s_run,          \* the runner, the coroutine of run_agent
    s_gen,          \* the event generator of the response
    s_queue,        \* queue
    s_emitted,      \* history: the events the response carried, in order
    s_progress,     \* history: the events agent.chat gave to progress, in order
    \* the turns of one session, run once for every kind of progress callback
    c_run           \* callback kind -> the run of agent.chat with that callback

mem_vars == <<max_messages, mem_messages, mem_state, appended, state_log>>
loop_vars == <<lpc, messages, plan, tool_round, tool_calls, last_response,
               raw_response, llm_calls, next_id, executor_calls, tool_outputs>>
fin_vars == <<structured, reply_text, questions, trip_plan>>
turn_vars == <<t_pc, t_conv, t_context, t_round, t_route>>
tool_vars == <<tl_pc, tl_req, tl_env, tl_res>>
\* the variables of the specifications of single components
asm_vars == <<as_pc, as_plan, as_trip, as_adj, as_out>>
stream_vars == <<s_run, s_gen, s_queue, s_emitted, s_progress>>
chat_vars == <<c_run>>
ext_vars == <<tool_vars, asm_vars, stream_vars, chat_vars>>
vars == <<max_messages, mem_messages, mem_state, appended, state_log,
          tl_pc, tl_req, tl_env, tl_res,
          as_pc, as_plan, as_trip, as_adj, as_out,
          s_run, s_gen, s_queue, s_emitted, s_progress, c_run,
          lpc, messages, plan, tool_round, tool_calls, last_response,
          raw_response, llm_calls, next_id, executor_calls, tool_outputs,
          structured, reply_text, questions, trip_plan,
          t_pc, t_conv, t_context, t_round, t_route>>

(***************************************************************************)
(* Python list helpers.                                                    *)
(***************************************************************************)
Max(a, b) == IF a >= b THEN a ELSE b
Min(a, b) == IF a <= b THEN a ELSE b

\* s[-n:] of a Python list: the last n elements for n > 0, the whole list
\* for n = 0 (-0 is 0), and s without its first -n elements for n < 0
PySliceLast(s, n) ==
    IF n = 0 THEN s
    ELSE IF n > 0 THEN SubSeq(s, Max(1, Len(s) - n + 1), Len(s))
    ELSE SubSeq(s, Min(-n, Len(s)) + 1, Len(s))

(***************************************************************************)
(* InMemoryConversationMemory                                              *)
(***************************************************************************)
MemInit ==
    /\ max_messages \in 1..MaxCap
    /\ mem_messages = [c \in ConvIds |-> <<>>]
    /\ mem_state = [c \in ConvIds |-> [k \in StateKeys |-> NoValue]]
    /\ appended = [c \in ConvIds |-> <<>>]
    /\ state_log = <<>>

get_history(c) == mem_messages[c]

\* the history of a conversation after append_message(c, m)
TrimKeepOldest(history, cap) ==
    IF Len(history) > cap THEN SubSeq(history, 1, cap) ELSE history
Trimmed(history, cap) ==
    IF Len(history) > cap THEN PySliceLast(history, cap) ELSE history

HistoryAfterAppend(history, m) == Trimmed(Append(history, m), max_messages)

append_message(c, m) ==
    /\ mem_messages' = [mem_messages EXCEPT ![c] = HistoryAfterAppend(@, m)]
    /\ appended' = [appended EXCEPT ![c] = Append(@, m)]

get_state(c) == mem_state[c]

\* update_state(c, new_state): dict.update, a shallow merge; new_state maps
\* the keys it holds, NoValue marks a key it does not hold
StateAfterUpdateReplace(current, new_state) == new_state

StateAfterUpdate(current, new_state) ==
    [k \in StateKeys |-> IF new_state[k] # NoValue THEN new_state[k] ELSE current[k]]

update_state_SharedDict(c, new_state) ==
    /\ mem_state' = [d \in ConvIds |-> StateAfterUpdate(mem_state[d], new_state)]
    /\ state_log' = Append(state_log, <<c, new_state>>)
update_state(c, new_state) ==
    /\ mem_state' = [mem_state EXCEPT ![c] = StateAfterUpdate(@, new_state)]
    /\ state_log' = Append(state_log, <<c, new_state>>)

(***************************************************************************)
(* Content blocks and the tool registry                                    *)
(***************************************************************************)
\* CyclingTripAgent.tools / tool_input_models: the registered tool names
\* (two of the seven are enough to tell accumulation per name apart)
RegisteredTools == {"get_route", "get_weather"}
UnknownTool == "book_hotel"
\* a tool_use block without a name (name missing, None or "")
NoName == ""
\* the input of a tool_use block: empty or missing, accepted by the tool's
\* input model, or rejected by it
InEmpty == "{}"
InValid == "valid"
InInvalid == "invalid"

\* the text of a block is a string, kept as the sequence of its characters
TextBlock(t) == [type |-> "text", text |-> t]
ToolUse(id, name, input) == [type |-> "tool_use", id |-> id, name |-> name, input |-> input]
ToolResultBlock(id, text) == [type |-> "tool_result", tool_use_id |-> id, text |-> text]

\* _block_type(block)
block_type(b) == b.type

\* [item for item in content if _block_type(item) == "tool_use"]
IsToolUse(b) == block_type(b) = "tool_use"
IsNotToolUse(b) == block_type(b) # "tool_use"
ToolUseBlocks(content) == SelectSeq(content, IsToolUse)

\* the shapes of model response the gateway is let to give: each is the
\* list of its blocks, a tool_use block as <<name, input>>
ResponseShapes ==
    { <<"text">>,
      <<"text", <<"get_weather", InValid>>>>,
      <<<<"get_weather", InEmpty>>, <<"get_route", InInvalid>>,
        <<UnknownTool, InValid>>, <<"get_weather", InValid>>>>,
      <<<<NoName, InEmpty>>, "text", <<"get_route", InValid>>>> }

\* the content of a response of the given shape; the gateway numbers the
\* tool_use blocks of a turn with fresh ids first, first + 1, ...
ResponseContent(shape, first) ==
    [i \in 1..Len(shape) |->
        IF shape[i] = "text" THEN TextBlock(<<"t">>)
        ELSE ToolUse(first + i - 1, shape[i][1], shape[i][2])]

(***************************************************************************)
(* CyclingTripAgent._execute_tool                                          *)
(***************************************************************************)
\* the output of the tool function for the call with this id
ToolOutput(id) == <<"output", id>>

\* what the tool function does when it is awaited: returns or raises
ExecutorOutcomes == {"returns", "raises"}

\* the tool function is reached: the name is registered and the input model
\* accepts the input
ReachesExecutor(name, input) == name \in RegisteredTools /\ input = InValid

\* _execute_tool({"name": name, "input": input}): the output, or the
\* exception it raises
execute_tool_ErrorAsOutput(id, name, input, outcome) ==
    IF name \notin RegisteredTools THEN [raised |-> "ValueError"]
    ELSE IF input # InValid THEN [raised |-> "ValidationError"]
    ELSE IF outcome = "raises" THEN [raised |-> "none", output |-> <<"error", id>>]
    ELSE [raised |-> "none", output |-> ToolOutput(id)]
execute_tool(id, name, input, outcome) ==
    IF name \notin RegisteredTools THEN [raised |-> "ValueError"]
    ELSE IF input # InValid THEN [raised |-> "ValidationError"]
    ELSE IF outcome = "raises" THEN [raised |-> "Exception"]
    ELSE [raised |-> "none", output |-> ToolOutput(id)]

(***************************************************************************)
(* CyclingTripAgent._run_tool_loop                                         *)
(***************************************************************************)
max_rounds == 4
cleanup_rounds == 2
total_rounds_allowed == max_rounds + cleanup_rounds

\* while tool_round < total_rounds_allowed
LoopContinuesOffByOne(round) == round <= total_rounds_allowed
LoopContinues(round) == round < total_rounds_allowed

\* the exceptions of _execute_tool that the try statement of the loop handles
CaughtOnlyValidation == {"ValidationError"}
CaughtExceptions == {"ValidationError", "ValueError", "Exception"}

\* the text of the error ToolResult for an exception
ErrorTextGeneric(exc, name) == <<"Execution failed for", name>>
ErrorText(exc, name) ==
    IF exc = "ValidationError" THEN <<"Validation failed for", name>>
    ELSE <<"Execution failed for", name>>
MissingText(name) == <<"Missing required fields for", name>>

\* a Plan entry: absent, the bare output, or a list of outputs
PlanAbsent == [kind |-> "absent", items |-> <<>>]
PlanInit == [n \in RegisteredTools |-> PlanAbsent]

\* the accumulate-or-promote rule for one successful output
AccumulateNested(existing, output) ==
    IF existing.kind = "absent" THEN [kind |-> "bare", items |-> <<output>>]
    ELSE [kind |-> "list", items |-> <<existing.items[1], output>>]
Accumulate(existing, output) ==
    IF existing.kind = "list" THEN [kind |-> "list", items |-> Append(existing.items, output)]
    ELSE IF existing.kind = "bare" THEN [kind |-> "list", items |-> <<existing.items[1], output>>]
    ELSE [kind |-> "bare", items |-> <<output>>]

\* the body of  for call in tool_calls  for the i-th call, from the
\* accumulator acc of the calls before it
ProcessCall(acc, call, outcome) ==
    LET call_name == call.name
        call_id == call.id
        call_input == call.input
        res == execute_tool(call_id, call_name, call_input, outcome)
    IN  IF acc.crashed # "none" THEN acc
        ELSE IF call_name = NoName THEN acc
        ELSE IF call_input = InEmpty THEN
            [acc EXCEPT !.results = Append(@, ToolResultBlock(call_id, MissingText(call_name)))]
        ELSE IF res.raised # "none" THEN
            IF res.raised \in CaughtExceptions
            THEN [acc EXCEPT
                    !.results = Append(@, ToolResultBlock(call_id, ErrorText(res.raised, call_name))),
                    !.executed = IF ReachesExecutor(call_name, call_input)
                                 THEN Append(@, call_id) ELSE @]
            ELSE [acc EXCEPT !.crashed = res.raised]
        ELSE
            [acc EXCEPT
                !.plan = [@ EXCEPT ![call_name] = Accumulate(@, res.output)],
                !.results = Append(@, ToolResultBlock(call_id, res.output)),
                !.executed = Append(@, call_id),
                !.outputs = [@ EXCEPT ![call_name] = Append(@, res.output)]]

RECURSIVE ProcessCalls(_, _, _, _)
ProcessCalls(acc, calls, outcomes, i) ==
    IF i > Len(calls) THEN acc
    ELSE ProcessCalls(ProcessCall(acc, calls[i], outcomes[i]), calls, outcomes, i + 1)

\* stripping of the dangling tool_use blocks of the final response
StripNothing(content) == content
StripToolUse(content) == SelectSeq(content, IsNotToolUse)

\* the first user message of the turn
UserTurn == [role |-> "user", content |-> <<TextBlock(<<"u">>)>>]

LoopInit ==
    /\ lpc = "start"
    /\ messages = <<UserTurn>>
    /\ plan = PlanInit
    /\ tool_round = 0
    /\ tool_calls = <<>>
    /\ last_response = <<>>
    /\ raw_response = <<>>
    /\ llm_calls = 0
    /\ next_id = 1
    /\ executor_calls = <<>>
    /\ tool_outputs = [n \in RegisteredTools |-> <<>>]

\* lines 389-398: the first gateway request
CallLlmFirst ==
    /\ lpc = "start"
    /\ lpc' = "await_llm"
    /\ llm_calls' = llm_calls + 1
    /\ UNCHANGED <<messages, plan, tool_round, tool_calls, last_response,
                   raw_response, next_id, executor_calls, tool_outputs>>
    /\ UNCHANGED <<mem_vars, fin_vars, turn_vars, ext_vars>>

\* _call_llm raises (no client, transport failure): it propagates
LlmFails ==
    /\ lpc = "await_llm"
    /\ lpc' = "fatal"
    /\ UNCHANGED <<messages, plan, tool_round, tool_calls, last_response,
                   raw_response, llm_calls, next_id, executor_calls, tool_outputs>>
    /\ UNCHANGED <<mem_vars, fin_vars, turn_vars, ext_vars>>

\* _call_llm returns a response: the loop head (lines 400-421) and, when
\* the loop is left, the stripping and the return (lines 527-544)
LlmResponds(shape) ==
    /\ lpc = "await_llm"
    /\ LET content == ResponseContent(shape, next_id)
           calls == ToolUseBlocks(content)
       IN /\ raw_response' = content
          /\ next_id' = next_id + Len(shape)
          /\ IF LoopContinues(tool_round) /\ calls # <<>>
             THEN /\ tool_calls' = calls
                  /\ last_response' = content
                  /\ lpc' = "tools"
             ELSE /\ tool_calls' = IF LoopContinues(tool_round) THEN calls ELSE tool_calls
                  /\ last_response' = StripToolUse(content)
                  /\ lpc' = "returned"
    /\ UNCHANGED <<messages, plan, tool_round, llm_calls, executor_calls, tool_outputs>>
    /\ UNCHANGED <<mem_vars, fin_vars, turn_vars, ext_vars>>

\* line 520: the assistant turn of a round holds last_response.content
AssistantTurnTextOnly(response_content) ==
    [role |-> "assistant", content |-> StripToolUse(response_content)]
AssistantTurn(response_content) ==
    [role |-> "assistant", content |-> response_content]

\* lines 520-521: the two turns a round appends to the transcript
RoundTurnsSwapped(response_content, tool_results_payload) ==
    << [role |-> "user", content |-> tool_results_payload],
       [role |-> "assistant", content |-> response_content] >>
RoundTurns(response_content, tool_results_payload) ==
    << AssistantTurn(response_content),
       [role |-> "user", content |-> tool_results_payload] >>

\* one round (lines 423-525): every call of the response is handled, the
\* assistant turn and the tool-result turn are appended, and the next
\* gateway request is issued
RunToolRound(outcomes) ==
    /\ lpc = "tools"
    /\ LET acc0 == [results |-> <<>>, plan |-> plan, executed |-> <<>>,
                    outputs |-> tool_outputs, crashed |-> "none"]
           acc == ProcessCalls(acc0, tool_calls, outcomes, 1)
       IN /\ tool_round' = tool_round + 1
          /\ plan' = acc.plan
          /\ executor_calls' = executor_calls \o acc.executed
          /\ tool_outputs' = acc.outputs
          /\ IF acc.crashed # "none"
             THEN /\ lpc' = "crashed"
                  /\ UNCHANGED <<messages, llm_calls>>
             ELSE /\ messages' = messages \o RoundTurns(last_response, acc.results)
                  /\ llm_calls' = llm_calls + 1
                  /\ lpc' = "await_llm"
    /\ UNCHANGED <<tool_calls, last_response, raw_response, next_id>>
    /\ UNCHANGED <<mem_vars, fin_vars, turn_vars, ext_vars>>

\* the outcomes the tool functions of a round can have: one per call that
\* reaches its tool function
RoundOutcomes(calls) ==
    { oc \in [1..Len(calls) -> ExecutorOutcomes] :
        \A i \in 1..Len(calls) :
            ~ReachesExecutor(calls[i].name, calls[i].input) => oc[i] = "returns" }

LoopNext ==
    \/ CallLlmFirst
    \/ LlmFails
    \/ \E shape \in ResponseShapes : LlmResponds(shape)
    \/ \E oc \in RoundOutcomes(tool_calls) : RunToolRound(oc)

(***************************************************************************)
(* CyclingTripAgent._finalize_response                                     *)
(***************************************************************************)
\* Python strings as character sequences: "".join(...) and str.strip()
RECURSIVE JoinText(_)
JoinText(content) ==
    IF content = <<>> THEN <<>>
    ELSE IF block_type(Head(content)) = "text"
         THEN Head(content).text \o JoinText(Tail(content))
         ELSE JoinText(Tail(content))

RECURSIVE Strip(_)
Strip(str) ==
    IF str = <<>> THEN <<>>
    ELSE IF Head(str) = " " THEN Strip(Tail(str))
    ELSE IF str[Len(str)] = " " THEN Strip(SubSeq(str, 1, Len(str) - 1))
    ELSE str

\* an Optional[List[str]]: None, or the list of its items
NoneList == [none |-> TRUE, items |-> <<>>]
ListOf(items) == [none |-> FALSE, items |-> items]
\* not lst
Falsy(lst) == lst.items = <<>>

ClarifyingQuestions ==
    ListOf(<< "What are your start and end locations?",
              "How many kilometers per day would you like to ride?",
              "What dates are you targeting?",
              "Any accommodation preferences or budget?",
              "Any weather conditions to avoid?" >>)
NeedDetailsReply == <<"I need a few details before planning. Please clarify.">>
ClarifyReply == <<"Could you clarify a few points?">>
PlanStubReply == <<"Here is a plan, let me know if you want modifications :\n">>
FailureReply == <<"I wasn't able to produce a reply. Please try again or provide more detail.">>

\* what _call_llm_structured returns: None when the call or the parse
\* failed, else the parsed ChatLLMResponse
StructuredNone == [ok |-> FALSE, reply |-> <<>>, questions |-> NoneList, adjustments |-> FALSE]
StructuredResults ==
    {StructuredNone} \cup
    [ok : {TRUE}, reply : {<<>>, <<"r">>},
     questions : {NoneList, ListOf(<<>>), ListOf(<<"q">>)},
     adjustments : BOOLEAN]

\* _build_trip_plan(plan): None without a route output, else the plan
\* anchored on the first route output
NoTripPlan == [built |-> FALSE, route |-> <<>>, adjusted |-> FALSE]
build_trip_plan(p) ==
    IF p["get_route"].kind = "absent" THEN NoTripPlan
    ELSE [built |-> TRUE, route |-> p["get_route"].items[1], adjusted |-> FALSE]

\* lines 583-585: _apply_adjustments is run on the assembled TripPlan when
\* the structured response carries adjustments
AdjustIfAnyAlways(tp, adjustments) ==
    IF tp.built THEN [tp EXCEPT !.adjusted = TRUE] ELSE tp
AdjustIfAny(tp, adjustments) ==
    IF tp.built /\ adjustments THEN [tp EXCEPT !.adjusted = TRUE] ELSE tp

\* bool(plan): the Plan mapping holds at least one tool name
PlanNonEmpty(p) == \E n \in RegisteredTools : p[n].kind # "absent"

\* lines 607-613: the reply when reply_text is still empty
DefaultReplyNoElse(qs, p) ==
    IF ~Falsy(qs) THEN ClarifyReply
    ELSE IF PlanNonEmpty(p) THEN PlanStubReply
    ELSE <<>>
DefaultReply(qs, p) ==
    IF ~Falsy(qs) THEN ClarifyReply
    ELSE IF PlanNonEmpty(p) THEN PlanStubReply
    ELSE FailureReply

\* line 596: not trip_plan and not tool_calls and not questions
NeedsClarificationOnlyNone(tp, calls, qs) ==
    ~tp.built /\ calls = <<>> /\ qs.none
NeedsClarification(tp, calls, qs) ==
    ~tp.built /\ calls = <<>> /\ Falsy(qs)

\* lines 563-615
finalize_response(st, last, p, calls) ==
    LET tp == build_trip_plan(p)
        reply1 == IF st.ok THEN st.reply ELSE Strip(JoinText(last))
        questions1 == IF st.ok THEN st.questions ELSE NoneList
        adjustments == st.ok /\ st.adjustments
        ask == NeedsClarification(tp, calls, questions1)
        questions2 == IF ask THEN ClarifyingQuestions ELSE questions1
        reply2 == IF ask /\ reply1 = <<>> THEN NeedDetailsReply ELSE reply1
        reply3 == IF reply2 = <<>> THEN DefaultReply(questions2, p) ELSE reply2
    IN [reply_text |-> reply3, trip_plan |-> AdjustIfAny(tp, adjustments),
        questions |-> questions2]

FinInit ==
    /\ structured = StructuredNone
    /\ reply_text = <<>>
    /\ questions = NoneList
    /\ trip_plan = NoTripPlan

\* _call_llm_structured returns and _finalize_response runs to its return
Finalize(st) ==
    /\ lpc = "returned"
    /\ lpc' = "finalized"
    /\ structured' = st
    /\ LET r == finalize_response(st, last_response, plan, tool_calls)
       IN /\ reply_text' = r.reply_text
          /\ questions' = r.questions
          /\ trip_plan' = r.trip_plan
    /\ UNCHANGED <<messages, plan, tool_round, tool_calls, last_response, raw_response,
                   llm_calls, next_id, executor_calls, tool_outputs>>
    /\ UNCHANGED <<mem_vars, turn_vars, ext_vars>>

\* what _run_tool_loop can hand to the finalizer: the last response after
\* stripping, the Plan and the tool_use blocks of the last inspected response
FinalTexts == { <<>>, <<TextBlock(<<"t">>)>>, <<TextBlock(<<" ">>)>>,
                <<TextBlock(<<"t">>), TextBlock(<<" ">>), TextBlock(<<"t">>)>>,
                <<TextBlock(<<" ", "a">>), TextBlock(<<"b", " ">>)>> }
FinalPlans ==
    { PlanInit,
      [PlanInit EXCEPT !["get_weather"] = [kind |-> "bare", items |-> <<ToolOutput(1)>>]],
      [PlanInit EXCEPT !["get_route"] = [kind |-> "bare", items |-> <<ToolOutput(1)>>]],
      [PlanInit EXCEPT !["get_route"] = [kind |-> "list", items |-> <<ToolOutput(1), ToolOutput(2)>>]] }
FinalToolCalls == { <<>>, <<ToolUse(9, "get_weather", InEmpty)>> }

FinalizeInit ==
    /\ lpc = "returned"
    /\ messages = <<UserTurn>>
    /\ plan \in FinalPlans
    /\ tool_round \in {0, 1, total_rounds_allowed}
    /\ tool_calls \in FinalToolCalls
    /\ tool_round = 0 => plan = PlanInit
    /\ tool_round < total_rounds_allowed <=> tool_calls = <<>>
    /\ last_response \in FinalTexts
    /\ raw_response = last_response
    /\ llm_calls = tool_round + 1
    /\ next_id = 10
    /\ executor_calls = <<>>
    /\ tool_outputs = [n \in RegisteredTools |-> plan[n].items]

FinalizeNext == \E st \in StructuredResults : Finalize(st)

(***************************************************************************)
(* CyclingTripAgent.chat: the turns of concurrent requests on one agent    *)
(***************************************************************************)
\* the requests sent to the service; each runs agent.chat once
Turns == {1, 2}
UserText(t) == IF t = 1 THEN "u1" ELSE "u2"
ReplyText(t) == IF t = 1 THEN "r1" ELSE "r2"
\* f"Previous plan summary:\n{last_plan_summary}"
SummaryText(summary) ==
    IF summary = "r1" THEN "Previous plan summary:\nr1" ELSE "Previous plan summary:\nr2"

\* the awaits at which a turn is suspended: the gateway request of the tool
\* loop, the tool functions of a round, the structured gateway request
Suspended == {"llm", "tools", "structured"}
InFlight(t) == t_pc[t] \in Suspended

TurnInit ==
    /\ t_pc = [t \in Turns |-> "idle"]
    /\ t_conv = [t \in Turns |-> "c1"]
    /\ t_context = [t \in Turns |-> <<>>]
    /\ t_round = [t \in Turns |-> 0]
    /\ t_route = [t \in Turns |-> FALSE]

\* _build_initial_messages (lines 354-371)
build_initial_messages_SummaryLast(c, user_msg) ==
    LET prior == get_history(c)
        last_plan_summary == get_state(c)["last_plan_summary"]
    IN  prior
        \o <<user_msg>>
        \o (IF last_plan_summary # NoValue
            THEN <<[role |-> "assistant", text |-> SummaryText(last_plan_summary)]>>
            ELSE <<>>)
build_initial_messages(c, user_msg) ==
    LET prior == get_history(c)
        last_plan_summary == get_state(c)["last_plan_summary"]
    IN  prior
        \o (IF last_plan_summary # NoValue
            THEN <<[role |-> "assistant", text |-> SummaryText(last_plan_summary)]>>
            ELSE <<>>)
        \o <<user_msg>>

\* chat, lines 628-632 and 389-397: the context is built from Memory and the
\* first gateway request of the loop is awaited
StartTurnEagerWrite(t, c) ==
    /\ t_pc[t] = "idle"
    /\ t_pc' = [t_pc EXCEPT ![t] = "llm"]
    /\ t_conv' = [t_conv EXCEPT ![t] = c]
    /\ t_context' = [t_context EXCEPT
          ![t] = build_initial_messages(c, [role |-> "user", text |-> UserText(t)])]
    /\ append_message(c, [role |-> "user", text |-> UserText(t)])
    /\ UNCHANGED <<t_round, t_route, max_messages, mem_state, state_log>>
    /\ UNCHANGED <<loop_vars, fin_vars, ext_vars>>
StartTurn(t, c) ==
    /\ t_pc[t] = "idle"
    /\ t_pc' = [t_pc EXCEPT ![t] = "llm"]
    /\ t_conv' = [t_conv EXCEPT ![t] = c]
    /\ t_context' = [t_context EXCEPT
          ![t] = build_initial_messages(c, [role |-> "user", text |-> UserText(t)])]
    /\ UNCHANGED <<t_round, t_route>>
    /\ UNCHANGED <<mem_vars, loop_vars, fin_vars, ext_vars>>

\* the gateway request of the loop returns: either a round of tool calls is
\* started, or the loop returns and the structured request is awaited
TurnLlmResponds(t, wants_tools) ==
    /\ t_pc[t] = "llm"
    /\ t_pc' = [t_pc EXCEPT ![t] =
          IF LoopContinues(t_round[t]) /\ wants_tools THEN "tools" ELSE "structured"]
    /\ UNCHANGED <<t_conv, t_context, t_round, t_route>>
    /\ UNCHANGED <<mem_vars, loop_vars, fin_vars, ext_vars>>

\* lines 520-521: the two turns a round adds to the transcript, the
\* assistant turn with the tool_use blocks and the user turn with the
\* tool_result blocks, each recorded by the type of its blocks
ToolRoundTurns ==
    << [role |-> "assistant", text |-> "<tool_use>"],
       [role |-> "user", text |-> "<tool_result>"] >>

\* the tool functions of the round return: the next gateway request is awaited
TurnToolsDone(t, route_ok) ==
    /\ t_pc[t] = "tools"
    /\ t_pc' = [t_pc EXCEPT ![t] = "llm"]
    /\ t_round' = [t_round EXCEPT ![t] = @ + 1]
    /\ t_route' = [t_route EXCEPT ![t] = @ \/ route_ok]
    /\ t_context' = [t_context EXCEPT ![t] = @ \o ToolRoundTurns]
    /\ UNCHANGED t_conv
    /\ UNCHANGED <<mem_vars, loop_vars, fin_vars, ext_vars>>

\* _call_llm raises: the exception leaves chat
TurnLlmFails(t) ==
    /\ t_pc[t] = "llm"
    /\ t_pc' = [t_pc EXCEPT ![t] = "failed"]
    /\ UNCHANGED <<t_conv, t_context, t_round, t_route>>
    /\ UNCHANGED <<mem_vars, loop_vars, fin_vars, ext_vars>>

\* the coroutine of the request is cancelled while it is suspended
\* (runner.cancel() of chat_stream)
CancelTurn(t) ==
    /\ InFlight(t)
    /\ t_pc' = [t_pc EXCEPT ![t] = "cancelled"]
    /\ UNCHANGED <<t_conv, t_context, t_round, t_route>>
    /\ UNCHANGED <<mem_vars, loop_vars, fin_vars, ext_vars>>

\* lines 642-643: the two messages chat appends, in order
assistant_msg_LastOfTranscript(t) == t_context[t][Len(t_context[t])]
assistant_msg(t) == [role |-> "assistant", text |-> ReplyText(t)]

CommitMessagesReplyFirst(t) ==
    << assistant_msg(t),
       [role |-> "user", text |-> UserText(t)] >>
CommitMessages(t) ==
    << [role |-> "user", text |-> UserText(t)],
       assistant_msg(t) >>

\* lines 644-649: the state update of the commit
CommitState(t) ==
    [k \in StateKeys |-> IF k = "last_plan_summary" THEN ReplyText(t) ELSE NoValue]

\* the structured request returns (or fails, which is absorbed): the rest of
\* _finalize_response and the commit of chat (lines 639-649) run with no
\* await in between, and chat returns
TurnCommitsOnStaleHistory(t) ==
    /\ t_pc[t] = "structured"
    /\ t_pc' = [t_pc EXCEPT ![t] = "done"]
    /\ LET c == t_conv[t]
           msgs == CommitMessages(t)
           read == SelectSeq(t_context[t], LAMBDA m : m.text \in {UserText(1), UserText(2),
                                                                  ReplyText(1), ReplyText(2)})
           prior == SubSeq(read, 1, Len(read) - 1)
       IN /\ mem_messages' = [mem_messages EXCEPT
                ![c] = HistoryAfterAppend(HistoryAfterAppend(prior, msgs[1]), msgs[2])]
          /\ appended' = [appended EXCEPT ![c] = @ \o msgs]
          /\ IF t_route[t]
             THEN update_state(c, CommitState(t))
             ELSE UNCHANGED <<mem_state, state_log>>
    /\ UNCHANGED <<t_conv, t_context, t_round, t_route, max_messages>>
    /\ UNCHANGED <<loop_vars, fin_vars, ext_vars>>
TurnCommits(t) ==
    /\ t_pc[t] = "structured"
    /\ t_pc' = [t_pc EXCEPT ![t] = "done"]
    /\ LET c == t_conv[t]
           msgs == CommitMessages(t)
       IN /\ mem_messages' = [mem_messages EXCEPT
                ![c] = HistoryAfterAppend(HistoryAfterAppend(@, msgs[1]), msgs[2])]
          /\ appended' = [appended EXCEPT ![c] = @ \o msgs]
          /\ IF t_route[t]
             THEN update_state(c, CommitState(t))
             ELSE UNCHANGED <<mem_state, state_log>>
    /\ UNCHANGED <<t_conv, t_context, t_round, t_route, max_messages>>
    /\ UNCHANGED <<loop_vars, fin_vars, ext_vars>>

TurnNext ==
    \E t \in Turns :
        \/ \E c \in ConvIds : StartTurn(t, c)
        \/ \E w \in BOOLEAN : TurnLlmResponds(t, w)
        \/ \E r \in BOOLEAN : TurnToolsDone(t, r)
        \/ TurnLlmFails(t)
        \/ CancelTurn(t)
        \/ TurnCommits(t)

(***************************************************************************)
(* The components specified on their own are idle in the specifications of *)
(* the agent.                                                              *)
(***************************************************************************)
ToolIdle ==
    /\ tl_pc = "idle"
    /\ tl_req = <<>>
    /\ tl_env = <<>>
    /\ tl_res = [kind |-> "None"]

AsmIdle ==
    /\ as_pc = "idle"
    /\ as_plan = <<>>
    /\ as_trip = [kind |-> "None"]
    /\ as_adj = <<>>
    /\ as_out = [kind |-> "None"]

StreamIdle ==
    /\ s_run = "idle"
    /\ s_gen = "idle"
    /\ s_queue = <<>>
    /\ s_emitted = <<>>
    /\ s_progress = <<>>

ChatIdle == c_run = <<>>

ExtIdle == ToolIdle /\ AsmIdle /\ StreamIdle /\ ChatIdle

InitTurns == MemInit /\ LoopInit /\ FinInit /\ TurnInit /\ ExtIdle
SpecTurns == InitTurns /\ [][TurnNext]_vars

MemIdle ==
    /\ max_messages = 1
    /\ mem_messages = [c \in ConvIds |-> <<>>]
    /\ mem_state = [c \in ConvIds |-> [k \in StateKeys |-> NoValue]]
    /\ appended = [c \in ConvIds |-> <<>>]
    /\ state_log = <<>>

InitFinalize == MemIdle /\ FinalizeInit /\ FinInit /\ TurnInit /\ ExtIdle
SpecFinalize == InitFinalize /\ [][FinalizeNext]_vars

InitLoop == MemIdle /\ LoopInit /\ FinInit /\ TurnInit /\ ExtIdle
SpecLoop == InitLoop /\ [][LoopNext]_vars

(***************************************************************************)
(* Specification of the memory alone: any sequence of append_message calls *)
(***************************************************************************)
TotalAppended == Len(appended["c1"]) + Len(appended["c2"])

AppendMessage(c, m) ==
    /\ TotalAppended < MaxAppends
    /\ append_message(c, m)
    /\ UNCHANGED <<max_messages, mem_state, state_log>>
    /\ UNCHANGED <<loop_vars, fin_vars, turn_vars, ext_vars>>

MemNext == \E c \in ConvIds, m \in MemoryMessage : AppendMessage(c, m)

InitMemory == MemInit /\ LoopInit /\ FinInit /\ TurnInit /\ ExtIdle
SpecMemory == InitMemory /\ [][MemNext]_vars

(***************************************************************************)
(* Specification of the session state alone: any sequence of update_state  *)
(* calls. A map m is written as a function on StateKeys whose value is     *)
(* NoValue for the keys m does not hold.                                   *)
(***************************************************************************)
StateMaps == [StateKeys -> Texts \cup {NoValue}]

UpdateState(c, m) ==
    /\ Len(state_log) < MaxUpdates
    /\ update_state(c, m)
    /\ UNCHANGED <<max_messages, mem_messages, appended>>
    /\ UNCHANGED <<loop_vars, fin_vars, turn_vars, ext_vars>>

StateNext == \E c \in ConvIds, m \in StateMaps : UpdateState(c, m)

InitState == MemInit /\ LoopInit /\ FinInit /\ TurnInit /\ ExtIdle
SpecState == InitState /\ [][StateNext]_vars

\* the value the latest update_state call of session c that holds key k gave
\* it, NoValue when no call of the session held k
RECURSIVE LastWritten(_, _, _)
LastWritten(log, c, k) ==
    IF log = <<>> THEN NoValue
    ELSE LET e == log[Len(log)]
         IN IF e[1] = c /\ e[2][k] # NoValue THEN e[2][k]
            ELSE LastWritten(SubSeq(log, 1, Len(log) - 1), c, k)

\* C17: update_state merges shallowly: after update_state(id, m) the state of
\* the session maps every key of m to m's value and keeps every other stored
\* key; the state of a session that was never updated is the empty map
C17_ShallowMerge ==
    \A c \in ConvIds :
        /\ \A k \in StateKeys : get_state(c)[k] = LastWritten(state_log, c, k)
        /\ (\A i \in 1..Len(state_log) : state_log[i][1] # c)
              => \A k \in StateKeys : get_state(c)[k] = NoValue

\* a session was updated twice: the second map replaced one key and did not
\* hold the other, which kept the value of the first map
C17_Witness ==
    /\ Len(state_log) = 2
    /\ state_log[1][1] = "c1" /\ state_log[2][1] = "c1"
    /\ state_log[1][2] = [k \in StateKeys |-> "a"]
    /\ state_log[2][2]["units"] = "b"
    /\ state_log[2][2]["last_plan_summary"] = NoValue
    /\ get_state("c1")["last_plan_summary"] = "a"
    /\ get_state("c1")["units"] = "b"

\* C1: the stored history of every session never exceeds max_messages and is
\* exactly the most recent max_messages appended messages, in their order
C1_HistoryBounded ==
    \A c \in ConvIds :
        /\ Len(mem_messages[c]) <= max_messages
        /\ LET all == appended[c]
               n == Min(Len(all), max_messages)
           IN mem_messages[c] = SubSeq(all, Len(all) - n + 1, Len(all))

\* an append overflowed the cap and the oldest message was dropped
C1_Witness ==
    \E c \in ConvIds :
        /\ Len(appended[c]) > max_messages
        /\ Len(mem_messages[c]) = max_messages
        /\ appended[c][1] # mem_messages[c][1]

(***************************************************************************)
(* Properties of the tool loop                                             *)
(***************************************************************************)
\* the positions of the assistant turns of the transcript whose content
\* holds tool_use blocks
ToolTurns == { i \in 1..Len(messages) :
                 messages[i].role = "assistant" /\ ToolUseBlocks(messages[i].content) # <<>> }

\* the ToolResults for id in the message that follows position i
ResultsFor(i, id) ==
    IF i + 1 > Len(messages) \/ messages[i + 1].role # "user" THEN {}
    ELSE { k \in 1..Len(messages[i + 1].content) :
             /\ messages[i + 1].content[k].type = "tool_result"
             /\ messages[i + 1].content[k].tool_use_id = id }

ResultText(i, id) == messages[i + 1].content[CHOOSE k \in ResultsFor(i, id) : TRUE].text

\* C3: a turn's tool loop runs at most 6 rounds and issues at most 7
\* tool-calling gateway requests, whatever the model responds
C3_RoundBound == tool_round <= 6 /\ llm_calls <= 7

\* the model asked for tools in all 7 responses and the loop returned
C3_Witness ==
    /\ lpc = "returned"
    /\ tool_round = 6
    /\ llm_calls = 7
    /\ ToolUseBlocks(raw_response) # <<>>

\* C4: when the loop returns, the returned response holds no tool_use block
\* and holds every non-tool block of the model's response, in order
C4_NoToolUseReturned ==
    lpc = "returned" =>
        LET kept == { i \in 1..Len(raw_response) : raw_response[i].type # "tool_use" }
        IN /\ \A k \in 1..Len(last_response) : last_response[k].type # "tool_use"
           /\ Len(last_response) = Cardinality(kept)
           /\ \A i \in kept :
                last_response[Cardinality({ j \in kept : j <= i })] = raw_response[i]

\* the round bound was exhausted with tool_use blocks still in the response,
\* which were stripped while a text block was kept
C4_Witness ==
    /\ lpc = "returned"
    /\ tool_round = 6
    /\ ToolUseBlocks(raw_response) # <<>>
    /\ last_response # <<>>
    /\ Len(last_response) < Len(raw_response)

\* C5: in the transcript every assistant turn with tool_use blocks is
\* followed by a user turn that holds exactly one ToolResult per tool_use id
C5_EveryToolUseAnswered ==
    \A i \in ToolTurns :
        /\ i + 1 <= Len(messages)
        /\ messages[i + 1].role = "user"
        /\ \A k \in 1..Len(messages[i].content) :
              messages[i].content[k].type = "tool_use" =>
                  Cardinality(ResultsFor(i, messages[i].content[k].id)) = 1

\* C6: a tool_use block with empty input never reaches its tool function and
\* gets exactly one ToolResult, the missing-required-fields error
C6_EmptyInputAnswered ==
    \A i \in ToolTurns :
        \A k \in 1..Len(messages[i].content) :
            LET b == messages[i].content[k]
            IN (b.type = "tool_use" /\ b.input = InEmpty) =>
                  /\ \A e \in 1..Len(executor_calls) : executor_calls[e] # b.id
                  /\ Cardinality(ResultsFor(i, b.id)) = 1
                  /\ ResultText(i, b.id)[1] = "Missing required fields for"

\* C7: per tool name the Plan entry is absent before the first success, the
\* bare output after one, and the list of all outputs in call order after more
C7_PlanAccumulates ==
    \A n \in RegisteredTools :
        LET outs == tool_outputs[n]
        IN /\ Len(outs) = 0 => plan[n].kind = "absent"
           /\ Len(outs) = 1 => plan[n] = [kind |-> "bare", items |-> <<outs[1]>>]
           /\ Len(outs) = 2 => plan[n] = [kind |-> "list", items |-> <<outs[1], outs[2]>>]
           /\ Len(outs) >= 2 => plan[n] = [kind |-> "list", items |-> outs]

\* one tool name succeeded three times, in more than one round
C7_Witness ==
    \E n \in RegisteredTools :
        /\ Len(tool_outputs[n]) >= 3
        /\ plan[n].kind = "list"
        /\ tool_round >= 3

\* C8: no failure of a tool call leaves the loop: an unregistered tool, a
\* validation failure and a raising tool function each give an error
\* ToolResult, every round is followed by the next gateway request, and the
\* loop ends only by returning or by a gateway failure
C8_ToolFailuresContained ==
    /\ lpc \in {"start", "await_llm", "tools", "returned", "fatal"}
    /\ lpc \in {"await_llm", "returned", "fatal"} => llm_calls = tool_round + 1
    /\ Len(messages) = 1 + 2 * tool_round
    /\ \A i \in ToolTurns :
        \A k \in 1..Len(messages[i].content) :
            LET b == messages[i].content[k]
            IN (b.type = "tool_use" /\ b.name # NoName /\ b.input # InEmpty) =>
                  /\ Cardinality(ResultsFor(i, b.id)) = 1
                  /\ b.name \notin RegisteredTools =>
                        ResultText(i, b.id) = <<"Execution failed for", b.name>>
                  /\ (b.name \in RegisteredTools /\ b.input = InInvalid) =>
                        ResultText(i, b.id) = <<"Validation failed for", b.name>>
                  /\ (b.name \in RegisteredTools /\ b.input = InValid) =>
                        \/ ResultText(i, b.id) = ToolOutput(b.id)
                        \/ ResultText(i, b.id) = <<"Execution failed for", b.name>>

\* a round held an unregistered tool, a rejected input and a raising tool
\* function, and the loop went on to later rounds and returned
C8_Witness ==
    /\ lpc = "returned"
    /\ tool_round >= 2
    /\ \E i \in ToolTurns :
          /\ i + 2 < Len(messages)
          /\ \E k1, k2, k3 \in 1..Len(messages[i + 1].content) :
                /\ messages[i + 1].content[k1].text[1] = "Validation failed for"
                /\ messages[i + 1].content[k2].text = <<"Execution failed for", UnknownTool>>
                /\ messages[i + 1].content[k3].text = <<"Execution failed for", "get_weather">>

\* the assistant turns of a transcript
AssistantTurns(msgs) == SelectSeq(msgs, LAMBDA m : m.role = "assistant")

\* C14: the transcript handed to the structured call never ends with an
\* assistant turn: after any number of rounds, also when the round bound
\* was exhausted, its last message is a user turn (the user message or a
\* tool-result turn) and the last response of the loop is not part of it
C14_TranscriptEndsWithUser ==
    lpc = "returned" =>
        /\ messages[Len(messages)].role = "user"
        /\ Len(messages) = 1 + 2 * tool_round
        /\ Len(AssistantTurns(messages)) = llm_calls - 1
        /\ tool_round = 0 => messages = <<UserTurn>>
        /\ tool_round > 0 =>
              \A i \in 1..Len(messages[Len(messages)].content) :
                  block_type(messages[Len(messages)].content[i]) = "tool_result"

\* the round bound was exhausted with tool_use blocks in the last response:
\* the transcript ends with the tool-result turn of the last round
C14_Witness ==
    /\ lpc = "returned"
    /\ tool_round = total_rounds_allowed
    /\ ToolUseBlocks(raw_response) # <<>>
    /\ messages[Len(messages)].role = "user"
    /\ messages[Len(messages)].content # <<>>
    /\ messages[Len(messages) - 1].role = "assistant"

\* C22: the rounds after the primary limit (rounds 5 and 6) add no tool
\* output to Plan: once max_rounds rounds are done, Plan changes no more
C22_CleanupAddsNothing == [][tool_round >= max_rounds => plan' = plan]_vars

\* C27: a tool_use block of a registered tool whose non-empty input the
\* input model rejects never reaches the tool function and gets exactly one
\* ToolResult for its id, which carries the validation message
C27_ValidationErrorAnswered ==
    \A i \in ToolTurns :
        \A k \in 1..Len(messages[i].content) :
            LET b == messages[i].content[k]
            IN (b.type = "tool_use" /\ b.name \in RegisteredTools /\ b.input = InInvalid) =>
                  /\ \A e \in 1..Len(executor_calls) : executor_calls[e] # b.id
                  /\ Cardinality(ResultsFor(i, b.id)) = 1
                  /\ ResultText(i, b.id) = <<"Validation failed for", b.name>>

\* a round held a call with a rejected input next to a call that ran its
\* tool function, and the loop returned
C27_Witness ==
    /\ lpc = "returned"
    /\ executor_calls # <<>>
    /\ \E i \in ToolTurns :
          \E k \in 1..Len(messages[i].content) :
             LET b == messages[i].content[k]
             IN /\ b.type = "tool_use" /\ b.name = "get_route" /\ b.input = InInvalid
                /\ ResultText(i, b.id) = <<"Validation failed for", "get_route">>

\* the tool_use blocks of the round of this step and its ToolResults
RoundDone == lpc = "tools" /\ lpc' = "await_llm"
RoundResults == messages'[Len(messages')].content
\* the name of the call of the round with the given id
NameOfCall(id) == tool_calls[CHOOSE k \in 1..Len(tool_calls) : tool_calls[k].id = id].name
\* the outputs of the successful calls of tool n in the round, in order
IsSuccessOf(r, n) == r.text = ToolOutput(r.tool_use_id) /\ NameOfCall(r.tool_use_id) = n
RoundSuccesses(n) ==
    LET hits == SelectSeq(RoundResults, LAMBDA r : IsSuccessOf(r, n))
    IN [j \in 1..Len(hits) |-> hits[j].text]

\* C28: in a round only the successful calls change Plan: the entry of a
\* tool none of whose calls succeeded is as before the round, and the entry
\* of any other tool gained the outputs of its successful calls and nothing
\* for its calls that ended as missing-input, validation-error or
\* execution-error
C28_OnlySuccessChangesPlan ==
    [][ RoundDone =>
          \A n \in RegisteredTools :
             /\ RoundSuccesses(n) = <<>> => plan'[n] = plan[n]
             /\ plan'[n].items = plan[n].items \o RoundSuccesses(n) ]_vars

\* the first round held a call without input, a rejected input, an
\* unregistered tool and a tool function that raised: Plan is still empty
C28_Witness ==
    /\ lpc = "await_llm"
    /\ tool_round = 1
    /\ Len(messages[3].content) = 4
    /\ \E k \in 1..4 : messages[3].content[k].text = <<"Execution failed for", "get_weather">>
    /\ executor_calls # <<>>
    /\ plan = PlanInit

\* the positions of the tool_use blocks of a content that have a name
RECURSIVE NamedIds(_)
NamedIds(content) ==
    IF content = <<>> THEN <<>>
    ELSE IF IsToolUse(Head(content)) /\ Head(content).name # NoName
         THEN <<Head(content).id>> \o NamedIds(Tail(content))
         ELSE NamedIds(Tail(content))

\* C29: from one tool-calling gateway request to the next the transcript
\* grows by two messages, the assistant turn with the model response as it
\* was received and one user turn with the ToolResults of the round in the
\* order of the tool_use blocks of the response, and every tool function of
\* the round was awaited before the request
C29_RoundGrowsTranscriptByTwo ==
    [][ (llm_calls' = llm_calls + 1 /\ llm_calls >= 1) =>
          LET n == Len(messages)
              results == messages'[n + 2].content
          IN /\ Len(messages') = n + 2
             /\ SubSeq(messages', 1, n) = messages
             /\ messages'[n + 1] = [role |-> "assistant", content |-> raw_response]
             /\ messages'[n + 2].role = "user"
             /\ \A k \in 1..Len(results) : results[k].type = "tool_result"
             /\ [k \in 1..Len(results) |-> results[k].tool_use_id] = NamedIds(raw_response)
             /\ \A k \in 1..Len(tool_calls) :
                   ReachesExecutor(tool_calls[k].name, tool_calls[k].input) =>
                      \E e \in 1..Len(executor_calls') : executor_calls'[e] = tool_calls[k].id
      ]_vars

\* the second round was done after a first round of four calls: the
\* transcript holds the user message and two turns per round
C29_Witness ==
    /\ lpc = "await_llm"
    /\ tool_round = 2
    /\ llm_calls = 3
    /\ Len(messages) = 5
    /\ Len(messages[3].content) = 4
    /\ Len(messages[5].content) >= 1

(***************************************************************************)
(* Properties of the finalizer                                             *)
(***************************************************************************)
\* C2: every finalized turn has a non-empty reply text, whatever the
\* structured call gave and whether or not there is a plan, questions or
\* pending tool calls
C2_ReplyNeverEmpty == lpc = "finalized" => reply_text # <<>>

\* the structured call failed, the last response had no text, there is no
\* plan and tool calls were pending: only the generic reply is left
C2_Witness ==
    /\ lpc = "finalized"
    /\ ~structured.ok
    /\ Strip(JoinText(last_response)) = <<>>
    /\ ~PlanNonEmpty(plan)
    /\ tool_calls # <<>>
    /\ reply_text = FailureReply

\* C15: whenever the loop ended because the latest response held no
\* tool_use block, the result of the turn has a non-empty reply and either
\* a TripPlan or a non-empty list of clarifying questions, whether the
\* structured call succeeded or failed
C15_PlanOrQuestions ==
    (lpc = "finalized" /\ tool_calls = <<>>) =>
        /\ reply_text # <<>>
        /\ trip_plan.built \/ questions.items # <<>>

\* the loop ended without a tool call and without a plan, the structured
\* call gave a reply and an empty list of questions: the fixed questions
\* are asked
C15_Witness ==
    /\ lpc = "finalized"
    /\ tool_calls = <<>>
    /\ tool_round = 0
    /\ structured.ok
    /\ structured.questions = ListOf(<<>>)
    /\ ~trip_plan.built
    /\ questions = ClarifyingQuestions
    /\ reply_text = <<"r">>

\* the questions the structured call gave (None when the call failed)
StructuredQuestions == IF structured.ok THEN structured.questions ELSE NoneList
\* the reply before the fallbacks: the structured reply, or the text of the
\* last response when the structured call failed
ReplyBeforeFallback ==
    IF structured.ok THEN structured.reply ELSE Strip(JoinText(last_response))

\* C21: a turn ending with no TripPlan, no tool_use block in the last model
\* response and no questions from the structured call returns the five
\* fixed clarifying questions, and the fixed fallback reply when the reply
\* is empty, whether the loop ended by the model stopping or at the round
\* bound
C21_ClarifiesWhenNothing ==
    (/\ lpc = "finalized"
     /\ ~trip_plan.built
     /\ ToolUseBlocks(raw_response) = <<>>
     /\ Falsy(StructuredQuestions)) =>
        /\ questions = ClarifyingQuestions
        /\ ReplyBeforeFallback = <<>> => reply_text = NeedDetailsReply

\* the texts of the text blocks of a response, put end to end
TextBlocksOf(content) == SelectSeq(content, LAMBDA b : b.type = "text")
RECURSIVE Concatenation(_)
Concatenation(blocks) ==
    IF blocks = <<>> THEN <<>>
    ELSE Concatenation(SubSeq(blocks, 1, Len(blocks) - 1)) \o blocks[Len(blocks)].text
\* a string without its leading and trailing blanks
Unpadded(str) ==
    LET inked == {i \in 1..Len(str) : str[i] # " "}
    IN  IF inked = {} THEN <<>>
        ELSE SubSeq(str, CHOOSE i \in inked : \A j \in inked : i <= j,
                         CHOOSE i \in inked : \A j \in inked : i >= j)
FixedReplies == {NeedDetailsReply, ClarifyReply, PlanStubReply, FailureReply}

\* C31 as stated: when the structured call fails or returns nothing, the
\* reply is the concatenation, in order, of the text blocks of the last
\* tool-loop response, and the returned TripPlan is the one the assembler
\* built from Plan, with no adjustment applied
C31_ReplyIsConcatenation ==
    (lpc = "finalized" /\ ~structured.ok) =>
        /\ reply_text = Concatenation(TextBlocksOf(last_response))
        /\ trip_plan = build_trip_plan(plan)

\* C31 as amended: when the structured call fails or returns nothing, the
\* reply is the concatenation, in order, of the text blocks of the last
\* tool-loop response without its leading and trailing blanks, or one of
\* the fixed fallback replies when nothing is left of it, and the returned
\* TripPlan is the one the assembler built from Plan, with no adjustment
\* applied
C31_FallbackReply ==
    (lpc = "finalized" /\ ~structured.ok) =>
        /\ LET text == Unpadded(Concatenation(TextBlocksOf(last_response)))
           IN  IF text # <<>> THEN reply_text = text ELSE reply_text \in FixedReplies
        /\ trip_plan = build_trip_plan(plan)

\* the structured call failed after a route was found and the last response
\* held two text blocks with blanks around them
C31_Witness ==
    /\ lpc = "finalized"
    /\ ~structured.ok
    /\ last_response = <<TextBlock(<<" ", "a">>), TextBlock(<<"b", " ">>)>>
    /\ reply_text = <<"a", "b">>
    /\ trip_plan.built
    /\ ~trip_plan.adjusted

(***************************************************************************)
(* Properties of the turns                                                 *)
(***************************************************************************)
\* the whole commit of turn t in this step
WholeCommit(t) ==
    LET c == t_conv[t]
        h == mem_messages[c] \o << [role |-> "user", text |-> UserText(t)],
                                   [role |-> "assistant", text |-> ReplyText(t)] >>
    IN /\ t_pc[t] = "structured" /\ t_pc'[t] = "done"
       /\ mem_messages'[c] = SubSeq(h, Max(1, Len(h) - max_messages + 1), Len(h))
       /\ mem_state'[c]["last_plan_summary"] =
             IF t_route[t] THEN ReplyText(t) ELSE mem_state[c]["last_plan_summary"]
       /\ \A d \in ConvIds \ {c} :
             mem_messages'[d] = mem_messages[d] /\ mem_state'[d] = mem_state[d]

\* C9: the memory writes of a turn are all-or-nothing: a step changes the
\* history or the state only as the whole commit of a turn that completes,
\* so a turn that fails on the gateway or is cancelled has written nothing,
\* and a turn completes only with its whole commit applied
C9_CommitAllOrNothing ==
    [][ /\ (mem_messages' # mem_messages \/ mem_state' # mem_state)
            => \E t \in Turns : WholeCommit(t)
        /\ \A t \in Turns :
            (t_pc[t] # "done" /\ t_pc'[t] = "done") => WholeCommit(t)
        /\ \A t \in Turns :
            (t_pc'[t] \in {"failed", "cancelled"} /\ t_pc[t] # t_pc'[t])
               => (mem_messages' = mem_messages /\ mem_state' = mem_state) ]_vars

\* in one session a turn committed its two messages and its plan summary,
\* and another turn was cancelled after tool rounds without leaving a trace
C9_Witness ==
    \E t1, t2 \in Turns :
        /\ t_pc[t1] = "done" /\ t_route[t1]
        /\ t_pc[t2] = "cancelled" /\ t_round[t2] > 0
        /\ t_conv[t1] = t_conv[t2]
        /\ appended[t_conv[t1]] = CommitMessages(t1)
        /\ mem_state[t_conv[t1]]["last_plan_summary"] = ReplyText(t1)

\* C10: turns on one session id are mutually exclusive: two turns in flight
\* at once are never on the same conversation id, and a turn that commits
\* built its context on the history that is current at its commit
C10_TurnsExclusive ==
    /\ \A t1, t2 \in Turns :
          (t1 # t2 /\ InFlight(t1) /\ InFlight(t2)) => t_conv[t1] # t_conv[t2]
    /\ \A t \in Turns :
          InFlight(t) =>
             \A i \in 1..Len(mem_messages[t_conv[t]]) :
                \E j \in 1..Len(t_context[t]) :
                    t_context[t][j] = mem_messages[t_conv[t]][i]

\* no two consecutive messages of the list have the same role
Alternates(msgs) == \A i \in 1..(Len(msgs) - 1) : msgs[i].role # msgs[i + 1].role

\* C25: the message list a turn sends to the gateway alternates roles,
\* whatever the stored history and state of its session
C25_RolesAlternate == \A t \in Turns : Alternates(t_context[t])

\* the user message of turn t
UserMessage(t) == [role |-> "user", text |-> UserText(t)]
\* turn t starts in this step
Starts(t) == t_pc[t] = "idle" /\ t_pc'[t] = "llm"

\* C30: the initial message list of a turn is the stored history of its
\* session, then, when the session has a last plan summary, one assistant
\* message carrying the summary, then the new user message in last place;
\* building it changes neither the history nor the state
C30_InitialContext ==
    [][ \A t \in Turns :
          Starts(t) =>
            LET c == t_conv'[t]
                summary == mem_state[c]["last_plan_summary"]
                ctx == t_context'[t]
                n == Len(mem_messages[c])
            IN /\ SubSeq(ctx, 1, n) = mem_messages[c]
               /\ ctx[Len(ctx)] = UserMessage(t)
               /\ IF summary = NoValue THEN Len(ctx) = n + 1
                  ELSE /\ Len(ctx) = n + 2
                       /\ ctx[n + 1] = [role |-> "assistant",
                                        text |-> "Previous plan summary:\n" \o summary]
               /\ mem_messages' = mem_messages
               /\ mem_state' = mem_state ]_vars

\* a turn was started on a session that holds the two messages and the plan
\* summary of an earlier turn
C30_Witness ==
    \E t1, t2 \in Turns :
        /\ t_pc[t1] = "done" /\ t_pc[t2] = "llm"
        /\ max_messages = 2
        /\ t_context[t2] = << UserMessage(t1),
                              [role |-> "assistant", text |-> ReplyText(t1)],
                              [role |-> "assistant",
                               text |-> "Previous plan summary:\n" \o ReplyText(t1)],
                              UserMessage(t2) >>

\* turn t completes in this step
Completes(t) == t_pc[t] # "done" /\ t_pc'[t] = "done"

\* C26: a completing turn appends its user message and then its reply, two
\* messages, and sets last_plan_summary to the reply exactly when it
\* produced a TripPlan, leaving the state as it was otherwise; no other step
\* of a turn changes Memory
C26_CommitOnceAtEnd ==
    [][ /\ \A t \in Turns :
             Completes(t) =>
               LET c == t_conv[t]
               IN /\ appended'[c] = appended[c] \o
                        << UserMessage(t), [role |-> "assistant", text |-> ReplyText(t)] >>
                  /\ mem_state'[c] =
                        IF t_route[t]
                        THEN [mem_state[c] EXCEPT !["last_plan_summary"] = ReplyText(t)]
                        ELSE mem_state[c]
                  /\ \A d \in ConvIds \ {c} :
                        appended'[d] = appended[d] /\ mem_state'[d] = mem_state[d]
        /\ (\A t \in Turns : ~Completes(t)) => UNCHANGED <<mem_messages, mem_state, appended>>
      ]_vars

\* a turn without a TripPlan completed on the session of a completed turn
\* with one: four messages were appended and the earlier summary is in place
C26_Witness ==
    \E t1, t2 \in Turns :
        /\ t_pc[t1] = "done" /\ t_route[t1]
        /\ t_pc[t2] = "done" /\ ~t_route[t2]
        /\ t_conv[t1] = t_conv[t2]
        /\ appended[t_conv[t1]] = CommitMessages(t1) \o CommitMessages(t2)
        /\ mem_state[t_conv[t1]]["last_plan_summary"] = ReplyText(t1)

\* C36: a step changes the history or the state stored for a conversation
\* id only when it is the commit of a turn run on that id: the appends and
\* the state update of a turn leave every other session as it was
C36_SessionIsolation ==
    [][ \A c \in ConvIds :
          (\/ mem_messages'[c] # mem_messages[c]
           \/ mem_state'[c] # mem_state[c]
           \/ appended'[c] # appended[c])
             => \E t \in Turns : Completes(t) /\ t_conv[t] = c ]_vars

\* two turns with a TripPlan were run on two sessions: each session holds
\* the messages and the summary of its own turn only
C36_Witness ==
    /\ t_pc[1] = "done" /\ t_pc[2] = "done"
    /\ t_route[1] /\ t_route[2]
    /\ t_conv[1] # t_conv[2]
    /\ appended[t_conv[1]] = CommitMessages(1)
    /\ appended[t_conv[2]] = CommitMessages(2)
    /\ mem_state[t_conv[1]]["last_plan_summary"] = ReplyText(1)
    /\ mem_state[t_conv[2]]["last_plan_summary"] = ReplyText(2)

\* the turns that have completed on a session
DoneOn(c) == {t \in Turns : t_pc[t] = "done" /\ t_conv[t] = c}
\* the last n elements of a sequence, all of it when it is shorter
LastOf(seq, n) == SubSeq(seq, Max(1, Len(seq) - n + 1), Len(seq))
\* turn t started before turn u completed and completed after it
Overlapped(t, u) ==
    /\ t_pc[t] = "done" /\ t_pc[u] = "done"
    /\ t_conv[t] = t_conv[u]
    /\ \A i \in 1..Len(t_context[t]) : t_context[t][i] # UserMessage(u)
    /\ \A i \in 1..Len(t_context[u]) : t_context[u][i] # UserMessage(t)

\* C37: also when the turns of a session overlap, the history of the session
\* is made of the messages of all its completed turns, less those the
\* capacity trim removed from its front, and every user message in it is
\* directly followed by the reply of the same turn
C37_OverlapKeepsBothTurns ==
    \A c \in ConvIds :
        LET h == mem_messages[c]
        IN /\ \E t, u \in Turns :
                \/ DoneOn(c) = {} /\ h = <<>>
                \/ DoneOn(c) = {t} /\ h = LastOf(CommitMessages(t), max_messages)
                \/ /\ DoneOn(c) = {t, u} /\ t # u
                   /\ h = LastOf(CommitMessages(t) \o CommitMessages(u), max_messages)
           /\ \A i \in 1..Len(h) : \A t \in Turns :
                h[i] = UserMessage(t) =>
                   /\ i < Len(h)
                   /\ h[i + 1] = [role |-> "assistant", text |-> ReplyText(t)]

\* two turns of one session overlapped (neither saw the other's messages in
\* its context) and the history holds the four messages of both
C37_Witness ==
    /\ Overlapped(1, 2)
    /\ Len(mem_messages[t_conv[1]]) = 4
    /\ mem_messages[t_conv[1]] = CommitMessages(2) \o CommitMessages(1)

\* the messages chat stores for its turns: utterances and final replies
Utterances == {UserMessage(t) : t \in Turns}
FinalReplies == {[role |-> "assistant", text |-> ReplyText(t)] : t \in Turns}
\* the transcript of a turn holds the message m
InTranscript(t, m) == \E i \in 1..Len(t_context[t]) : t_context[t][i] = m

\* C38: every message of every session history is the single text block of
\* a user utterance or of an assistant's final reply; the tool_use and
\* tool_result turns and the previous-plan-summary message of a turn's
\* transcript are never appended to Memory
C38_HistoryHoldsOnlyTexts ==
    \A c \in ConvIds :
        /\ \A i \in 1..Len(mem_messages[c]) : mem_messages[c][i] \in Utterances \cup FinalReplies
        /\ \A i \in 1..Len(appended[c]) : appended[c][i] \in Utterances \cup FinalReplies

\* the second turn of a session completed; its transcript held the summary
\* of the first turn's plan and the turns of a tool round, the history holds
\* the two utterances and the two replies
C38_Witness ==
    /\ t_pc[1] = "done" /\ t_pc[2] = "done"
    /\ t_conv[1] = t_conv[2]
    /\ InTranscript(2, [role |-> "assistant", text |-> SummaryText(ReplyText(1))])
    /\ InTranscript(2, ToolRoundTurns[1])
    /\ InTranscript(2, ToolRoundTurns[2])
    /\ mem_messages[t_conv[1]] = CommitMessages(1) \o CommitMessages(2)

(***************************************************************************)
(* The data tools backed by an external lookup (src/tools/route.py,        *)
(* weather.py, accomodation.py, geocoding.py). Distances are kept in       *)
(* tenths of a kilometre, the precision the tools round to.                *)
(***************************************************************************)
\* place names of the requests; "" is a name geocode_location refuses
Places == {"", "A", "Lyon"}
\* RouteRequest.daily_distance_km: an unconstrained int
DailyKm == {-5, 0, 50, 80}
\* WeatherRequest.day / AccommodationRequest.day: an unconstrained int
RequestDays == {-1, 0, 1, 2}
RouteRequest == [start : Places, end : Places, daily_distance_km : DailyKm]
WeatherRequest == [location : Places, day : RequestDays]
AccommodationRequest == [location : Places, day : RequestDays]

\* what the geocoding service does with a query: it fails or finds nothing,
\* it finds the place under the queried name, or under its canonical name
GeoOutcomes == {"nothing", "same", "canonical"}
\* what the HTTP request of the lookup does: it raises (transport error or
\* error status), it returns a body without usable data, or a usable body
HttpOutcomes == {"raises", "no_data", "ok"}
\* distance in metres of the route a usable OSRM body holds
OsrmDistances == {0, 45000, 120000, 120040}
\* the geometry of that route and the reverse geocoding of its day stops:
\* no coordinates, coordinates near no known place, coordinates near towns
StopOutcomes == {"no_coords", "unknown", "towns"}

\* an Optional result, and the outcome of a call: the value returned, None,
\* or an exception that left the call
None == [kind |-> "None"]
Raised == [kind |-> "raised"]
Some(v) == [kind |-> "value", value |-> v]

\* geocode_location (geocoding.py 25-52): None for an empty query, for no
\* result and for any exception; else the result with name `name or query`
geocode_location(query, outcome) ==
    IF query = "" \/ outcome = "nothing" THEN None
    ELSE Some([name |-> IF outcome = "same" THEN query ELSE query \o ", canonical"])

\* try: <request>; <no usable data: return None>; <build result>
\* except Exception: return None
HttpUnguarded(outcome, result) ==
    IF outcome = "raises" THEN Raised
    ELSE IF outcome = "no_data" THEN None
    ELSE Some(result)
HttpGuarded(outcome, result) ==
    IF outcome = "ok" THEN Some(result) ELSE None

\* math.ceil(a / b) for a >= 0 and b > 0
Ceil(a, b) == (a + b - 1) \div b

\* round(metres / 1000, 1) in tenths of a kilometre (the modelled distances
\* are no ties)
RoundTenths(metres) == (metres + 50) \div 100

\* max(1, math.ceil(distance / target)), distance and target in one unit
DaysForNoFloor(distance, target) == Ceil(distance, target)
DaysFor(distance, target) == Max(1, Ceil(distance, target))

StopLabel(day) == "Stop " \o ToString(day)

\* _build_mock_route, lines 52-68: the segments of days day..days
RECURSIVE MockSegments(_, _, _, _, _)
MockSegments(req, day, days, remaining, last_point) ==
    IF day > days THEN <<>>
    ELSE LET distance == Min(10 * req.daily_distance_km, remaining)
             end_point == IF day < days THEN StopLabel(day) ELSE req.end
             note1 == IF day = 1 THEN "Scenic route along secondary roads." ELSE NoValue
             note == IF day = days /\ note1 = NoValue
                     THEN "Challenging hills toward the end." ELSE note1
         IN <<[day |-> day, distance_km |-> distance, start |-> last_point,
               end |-> end_point, notes |-> note]>>
            \o MockSegments(req, day + 1, days, remaining - distance, end_point)

\* _build_mock_route
build_mock_route(req) ==
    LET base_distance == 1600 + 10 * ((Len(req.start) + Len(req.end)) % 40)
        days == DaysFor(base_distance, 10 * Max(req.daily_distance_km, 20))
    IN [total_distance_km |-> base_distance, days |-> days,
        segments |-> MockSegments(req, 1, days, base_distance, req.start)]

\* _fetch_osrm_route (lines 24-43): None unless both places are geocoded
\* and the request gives a body with a route
fetch_osrm_route(req, env) ==
    IF geocode_location(req.start, env.geo_start) = None
         \/ geocode_location(req.end, env.geo_end) = None
    THEN None
    ELSE HttpGuarded(env.http, [distance |-> env.distance, stops |-> env.stops])

\* _label_stops_with_towns for the target point of a day
stop_name(stops, day) ==
    IF stops = "no_coords" THEN "Unnamed stop"
    ELSE IF stops = "towns" THEN "Town " \o ToString(day)
    ELSE "Stop near " \o ToString(day)

\* get_route, lines 128-145: the segments of days day..days
RECURSIVE OsrmSegments(_, _, _, _, _, _, _)
OsrmSegments(req, route, day, days, daily_target, stop_names, last_point) ==
    IF day > days THEN <<>>
    ELSE LET distance ==
                 IF day < days THEN 10 * daily_target
                 ELSE Max(RoundTenths(route.distance - 1000 * daily_target * (days - 1)), 1)
             end_point ==
                 IF day = days THEN req.end
                 ELSE IF day - 1 < Len(stop_names) THEN stop_names[day]
                 ELSE StopLabel(day)
             note1 == IF day = 1 THEN "Based on OSRM bike routing." ELSE NoValue
             note == IF day = days /\ note1 = NoValue
                     THEN "Final approach to destination." ELSE note1
         IN <<[day |-> day, distance_km |-> distance, start |-> last_point,
               end |-> end_point, notes |-> note]>>
            \o OsrmSegments(req, route, day + 1, days, daily_target, stop_names, end_point)

\* get_route (lines 94-153)
get_route(req, env) ==
    LET osrm_route == fetch_osrm_route(req, env)
    IN IF osrm_route = Raised THEN Raised
       ELSE IF osrm_route # None
       THEN LET route == osrm_route.value
                daily_target == Max(req.daily_distance_km, 20)
                days == DaysFor(route.distance, 1000 * daily_target)
                stop_names == [d \in 1..days |-> stop_name(route.stops, d)]
            IN Some([total_distance_km |-> RoundTenths(route.distance),
                     days |-> days,
                     segments |-> OsrmSegments(req, route, 1, days, daily_target,
                                               stop_names, req.start)])
       ELSE Some(build_mock_route(req))

\* _mock_weather (weather.py 34-46)
conditions_cycle == <<"sunny", "partly cloudy", "breezy", "light rain", "overcast">>
mock_weather(req) ==
    LET base_temp == 18 + (Len(req.location) % 6)
    IN [daily |-> <<[day |-> req.day, location |-> req.location,
                     conditions |-> conditions_cycle[(req.day % Len(conditions_cycle)) + 1],
                     high_c |-> base_temp + 6, low_c |-> base_temp - 2,
                     precipitation_chance |-> 5 * (req.day % 4)]>>]

\* _fetch_weather (weather.py 49-102); the forecast values are those of the
\* service
fetch_weather(req, env) ==
    LET geo == geocode_location(req.location, env.geo)
    IN IF geo = None THEN None
       ELSE HttpGuarded(env.http,
              [daily |-> <<[day |-> req.day, location |-> geo.value.name,
                            conditions |-> "mixed conditions",
                            high_c |-> 21, low_c |-> 12,
                            precipitation_chance |-> 40]>>])

\* get_weather (weather.py 105-112)
get_weather(req, env) ==
    LET api_result == fetch_weather(req, env)
    IN IF api_result = Raised THEN Raised
       ELSE IF api_result # None THEN api_result
       ELSE Some(mock_weather(req))

\* _mock_accommodation (accomodation.py 12-41): prices in whole currency units
mock_accommodation(req) ==
    LET base_price == 50 + (Len(req.location) % 40)
    IN [day |-> req.day, location |-> req.location,
        options |-> <<
          [name |-> req.location \o " Hostel", price_per_night |-> base_price + 10,
           type |-> "hostel", available |-> TRUE],
          [name |-> req.location \o " BnB", price_per_night |-> base_price + 35,
           type |-> "bnb", available |-> TRUE],
          [name |-> req.location \o " Budget Inn", price_per_night |-> base_price,
           type |-> "motel", available |-> req.day % 2 = 0] >>]

\* _fetch_accommodation (accomodation.py 44-104) for a body with one unnamed
\* element
fetch_accommodation(req, env) ==
    LET geo == geocode_location(req.location, env.geo)
    IN IF geo = None THEN None
       ELSE HttpGuarded(env.http,
              [day |-> req.day, location |-> geo.value.name,
               options |-> <<[name |-> "Option 1 near " \o geo.value.name,
                              price_per_night |-> 55 + req.day * 5,
                              type |-> "bnb", available |-> req.day % 2 = 0]>>])

\* find_accommodation (accomodation.py 107-114)
find_accommodation(req, env) ==
    LET api_result == fetch_accommodation(req, env)
    IN IF api_result = Raised THEN Raised
       ELSE IF api_result # None THEN api_result
       ELSE Some(mock_accommodation(req))

RouteEnv == [geo_start : GeoOutcomes, geo_end : GeoOutcomes, http : HttpOutcomes,
             distance : OsrmDistances, stops : StopOutcomes]
LookupEnv == [geo : GeoOutcomes, http : HttpOutcomes]

ToolCalled(name, req, env, res) ==
    /\ tl_pc = "idle"
    /\ tl_pc' = name
    /\ tl_req' = req
    /\ tl_env' = env
    /\ tl_res' = res
    /\ UNCHANGED <<mem_vars, loop_vars, fin_vars, turn_vars, asm_vars, stream_vars, chat_vars>>

CallGetRoute(req, env) == ToolCalled("get_route", req, env, get_route(req, env))
CallGetWeather(req, env) == ToolCalled("get_weather", req, env, get_weather(req, env))
CallFindAccommodation(req, env) ==
    ToolCalled("find_accommodation", req, env, find_accommodation(req, env))

ToolsNext ==
    /\ tl_pc = "idle"
    /\ \/ \E req \in RouteRequest, env \in RouteEnv : CallGetRoute(req, env)
       \/ \E req \in WeatherRequest, env \in LookupEnv : CallGetWeather(req, env)
       \/ \E req \in AccommodationRequest, env \in LookupEnv :
             CallFindAccommodation(req, env)

InitTools == MemIdle /\ LoopInit /\ FinInit /\ TurnInit /\ ExtIdle
SpecTools == InitTools /\ [][ToolsNext]_vars

\* the external lookup of the call was unavailable
RouteLookupUnavailable ==
    \/ geocode_location(tl_req.start, tl_env.geo_start) = None
    \/ geocode_location(tl_req.end, tl_env.geo_end) = None
    \/ tl_env.http # "ok"
LookupUnavailable ==
    \/ geocode_location(tl_req.location, tl_env.geo) = None
    \/ tl_env.http # "ok"

\* C18: get_route always returns days >= 1 segments numbered 1..days, the
\* first starting at the requested start, the last ending at the requested
\* end and every other starting where the previous one ended, on the OSRM
\* path and on the mock path
C18_RouteSegmentsChain ==
    tl_pc = "get_route" =>
        /\ tl_res.kind = "value"
        /\ LET segments == tl_res.value.segments
               days == tl_res.value.days
           IN /\ days >= 1
              /\ Len(segments) = days
              /\ \A i \in 1..Len(segments) : segments[i].day = i
              /\ segments[1].start = tl_req.start
              /\ segments[Len(segments)].end = tl_req.end
              /\ \A i \in 2..Len(segments) : segments[i].start = segments[i - 1].end

\* a route of three days came back on the OSRM path, its stops named after
\* towns
C18_Witness ==
    /\ tl_pc = "get_route"
    /\ ~RouteLookupUnavailable
    /\ tl_res.value.days = 3
    /\ tl_res.value.segments[1].end = "Town 1"
    /\ tl_res.value.segments[2].start = "Town 1"
    /\ tl_res.value.segments[3].end = tl_req.end

\* C19: when the external lookup is unavailable, get_route, get_weather and
\* find_accommodation do not raise and return their mock response, which
\* carries the day and location (start and end) of the request
C19_FallbackToMock ==
    /\ (tl_pc = "get_route" /\ RouteLookupUnavailable) =>
          /\ tl_res = Some(build_mock_route(tl_req))
          /\ tl_res.value.segments[1].start = tl_req.start
          /\ tl_res.value.segments[Len(tl_res.value.segments)].end = tl_req.end
    /\ (tl_pc = "get_weather" /\ LookupUnavailable) =>
          /\ tl_res = Some(mock_weather(tl_req))
          /\ Len(tl_res.value.daily) = 1
          /\ tl_res.value.daily[1].day = tl_req.day
          /\ tl_res.value.daily[1].location = tl_req.location
    /\ (tl_pc = "find_accommodation" /\ LookupUnavailable) =>
          /\ tl_res = Some(mock_accommodation(tl_req))
          /\ tl_res.value.day = tl_req.day
          /\ tl_res.value.location = tl_req.location

\* the HTTP request of a weather lookup raised for a place the geocoding
\* service knows under its canonical name, and the mock came back
C19_Witness ==
    /\ tl_pc = "get_weather"
    /\ tl_env.geo = "canonical"
    /\ tl_env.http = "raises"
    /\ tl_req.location = "Lyon"
    /\ tl_req.day = 2
    /\ tl_res.value.daily[1].location = "Lyon"
    /\ tl_res.value.daily[1].conditions = "breezy"

(***************************************************************************)
(* The plan assembler: CyclingTripAgent._build_trip_plan (agent.py         *)
(* 135-246) over the outputs the tools accumulate in plan.                 *)
(***************************************************************************)
\* calls of one auxiliary tool accumulated in a plan
MaxAuxCalls == 2

AssemblerTools == {"get_route", "find_accommodation", "get_weather",
                   "get_elevation_profile", "get_points_of_interest",
                   "check_visa_requirements", "estimate_budget"}

\* get_elevation_profile (elevation.py 6-30); gain, loss and difficulty are
\* random and of no interest to the assembler
get_elevation_profile(req) ==
    [profile |-> <<[day |-> req.day, location |-> req.location,
                    notes |-> "Mocked elevation profile; no live terrain data."]>>]

\* get_points_of_interest (poi.py 6-29)
get_points_of_interest(req) ==
    [day |-> req.day, location |-> req.location,
     pois |-> <<req.location \o " Old Town", req.location \o " Scenic Park",
                req.location \o " Heritage Museum">>]

\* check_visa_requirements (visa.py 4-39) for a pair not visa-free
check_visa_requirements ==
    [nationality |-> "India", destination_country |-> "France",
     requirement |-> [required |-> TRUE, type |-> "tourist", allowed_stay_days |-> 30]]

\* tools/budget.py; amounts are kept in hundredths of a currency unit
nightly_budget_default == 7000
food_per_day_default == 4000
incidentals_per_day_default == 1500
\* the share of the buffer, in hundredths
buffer_percent == 5

\* a BudgetRequest with the given currency, days and travelers (None when
\* not given) and no other field given
BudgetRequest(currency, days, travelers) ==
    [currency |-> currency, days |-> days, nightly_budget |-> None,
     food_per_day |-> None, incidentals_per_day |-> None, travelers |-> travelers]

\* str.upper() of the currency codes of the modelled requests
Upper(str) ==
    CASE str = "usd" -> "USD"
      [] str = "eur" -> "EUR"
      [] str = "eu" -> "EU"
      [] OTHER -> str

\* _normalize_currency
normalize_currency(cur) ==
    IF cur = None \/ cur.value = "" THEN "USD"
    ELSE IF Len(Upper(cur.value)) \in {3, 4} THEN Upper(cur.value) ELSE "USD"

\* x or default, for an optional number
OrDefault(x, default) == IF x = None \/ x.value = 0 THEN default ELSE x.value

\* round(a / b, 2) of amounts in hundredths
RoundDiv(a, b) == (2 * a + b) \div (2 * b)

RECURSIVE SumPrices(_)
SumPrices(options) ==
    IF options = <<>> THEN 0
    ELSE 100 * Head(options).price_per_night + SumPrices(Tail(options))

\* _avg_lodging_cost(accommodation): opt.price_per_night is the attribute of
\* an AccommodationOption; an option that was dumped to a dict has no such
\* attribute and the read raises AttributeError
avg_lodging_cost(accommodation, options_dumped) ==
    IF accommodation = None \/ accommodation.value = <<>> THEN None
    ELSE IF options_dumped THEN Raised
    ELSE Some(RoundDiv(SumPrices(accommodation.value), Len(accommodation.value)))

\* the loop  for day in itinerary  of estimate_budget: the lodging total, or
\* Raised
RECURSIVE LodgingTotal(_, _, _)
LodgingTotal(itinerary, nightly_budget, options_dumped) ==
    IF itinerary = <<>> THEN Some(0)
    ELSE LET accom == Head(itinerary).accommodation
             avg == avg_lodging_cost(accom, options_dumped)
             rest == LodgingTotal(Tail(itinerary), nightly_budget, options_dumped)
         IN IF avg = Raised \/ rest = Raised THEN Raised
            ELSE Some((IF avg = None THEN nightly_budget ELSE avg.value) + rest.value)

\* estimate_budget(req, itinerary): the BudgetResponse, or Raised; itinerary
\* is None or the list of the day dicts
estimate_budget(req, itinerary, options_dumped) ==
    LET given == itinerary # None /\ itinerary.value # <<>>
        days == OrDefault(req.days, IF given THEN Len(itinerary.value) ELSE 1)
        nightly_budget == OrDefault(req.nightly_budget, nightly_budget_default)
        food_per_day == OrDefault(req.food_per_day, food_per_day_default)
        incidentals_per_day == OrDefault(req.incidentals_per_day, incidentals_per_day_default)
        travelers == Max(1, OrDefault(req.travelers, 1))
        lodging_total == IF given
                         THEN LodgingTotal(itinerary.value, nightly_budget, options_dumped)
                         ELSE Some(nightly_budget * days)
    IN IF lodging_total = Raised THEN Raised
       ELSE LET food_total == food_per_day * days * travelers
                incidentals_total == incidentals_per_day * days * travelers
                subtotal == lodging_total.value + food_total + incidentals_total
            IN Some([currency |-> normalize_currency(req.currency),
                     total |-> RoundDiv(subtotal * (100 + buffer_percent), 100),
                     per_day |-> RoundDiv(subtotal * (100 + buffer_percent), 100 * days),
                     breakdown |-> [lodging_total |-> lodging_total.value,
                                    food_total |-> food_total,
                                    incidentals_total |-> incidentals_total,
                                    buffer_total |->
                                        Max(0, RoundDiv(subtotal * buffer_percent, 100))]])

\* an estimate_budget output the model asked for as a tool call, in euros
\* for three days and two travelers and with no itinerary
ToolBudget == estimate_budget(BudgetRequest(Some("eur"), Some(3), Some(2)), None, FALSE).value

\* the plan entry after the successful outputs outs, in order
RECURSIVE AccumulateAll(_, _)
AccumulateAll(existing, outs) ==
    IF outs = <<>> THEN existing
    ELSE AccumulateAll(Accumulate(existing, Head(outs)), Tail(outs))

PlanEntry(outs) == AccumulateAll(PlanAbsent, outs)

\* the route outputs of the modelled plans: get_route of a request from "A"
\* to "Lyon" on the mock path (3 and 4 days) and on the OSRM path (1 day)
RouteOutput(daily, env) ==
    get_route([start |-> "A", end |-> "Lyon", daily_distance_km |-> daily], env).value
MockEnv == [geo_start |-> "nothing", geo_end |-> "nothing", http |-> "ok",
            distance |-> 0, stops |-> "towns"]
OsrmEnv == [geo_start |-> "same", geo_end |-> "same", http |-> "ok",
            distance |-> 45000, stops |-> "towns"]
PlanRoutes ==
    { <<>>,
      <<RouteOutput(80, MockEnv)>>,
      <<RouteOutput(50, MockEnv)>>,
      <<RouteOutput(50, OsrmEnv)>>,
      <<RouteOutput(80, MockEnv), RouteOutput(50, MockEnv)>>,
      <<RouteOutput(50, OsrmEnv), RouteOutput(80, MockEnv)>> }

\* the days the auxiliary tools are called for: a day of the longer routes
\* only and a day of the longest route only
AuxDays == {2, 4}
\* the location of the i-th call of a tool
AuxLocation(i) == IF i % 2 = 1 THEN "Lyon" ELSE "A"
\* the day sequences of the calls of one tool
DaySeqs(n) == UNION { [1..k -> AuxDays] : k \in 0..n }
\* the requests of the calls of one tool
AuxRequests(days) ==
    [i \in 1..Len(days) |-> [location |-> AuxLocation(i), day |-> days[i]]]
\* the outputs of the calls (the lookups of the modelled plans are
\* unavailable: weather and accommodation are the mock outputs)
WeatherOutputs(days) ==
    [i \in 1..Len(days) |-> mock_weather(AuxRequests(days)[i])]
AccommodationOutputs(days) ==
    [i \in 1..Len(days) |-> mock_accommodation(AuxRequests(days)[i])]
ElevationOutputs(days) ==
    [i \in 1..Len(days) |-> get_elevation_profile(AuxRequests(days)[i])]
PoiOutputs(days) ==
    [i \in 1..Len(days) |-> get_points_of_interest(AuxRequests(days)[i])]

\* plan as the tool loop leaves it after the given route outputs, the
\* auxiliary calls of the given days and the given numbers of visa and
\* budget calls
PlanOf(routes, accom, weather, elev, poi, visa, budget) ==
    [t \in AssemblerTools |->
       CASE t = "get_route" -> PlanEntry(routes)
         [] t = "find_accommodation" -> PlanEntry(AccommodationOutputs(accom))
         [] t = "get_weather" -> PlanEntry(WeatherOutputs(weather))
         [] t = "get_elevation_profile" -> PlanEntry(ElevationOutputs(elev))
         [] t = "get_points_of_interest" -> PlanEntry(PoiOutputs(poi))
         [] t = "check_visa_requirements" ->
              PlanEntry([i \in 1..visa |-> check_visa_requirements])
         [] OTHER -> PlanEntry([i \in 1..budget |-> ToolBudget])]

\* if x is None: x = []; if not isinstance(x, list): x = [x]
AsList(entry) == entry.items

\* the [day, value] pairs a tool's outputs contribute, in order
RECURSIVE Flatten(_, _)
Flatten(items, field) ==
    IF items = <<>> THEN <<>>
    ELSE Head(items)[field] \o Flatten(Tail(items), field)

ItemEntries(items, field) ==
    [i \in 1..Len(items) |-> [day |-> items[i].day, value |-> items[i][field]]]
NestedEntries(items, field) ==
    LET flat == Flatten(items, field)
    IN [i \in 1..Len(flat) |-> [day |-> flat[i].day, value |-> flat[i]]]

\* by_day.get(day_idx) of the dict built from the entries: the value of the
\* last entry of that day, None without one
ByDayAnyDay(entries, day_idx) ==
    IF entries = <<>> THEN None ELSE Some(entries[Len(entries)].value)
ByDay(entries, day_idx) ==
    LET hits == {i \in 1..Len(entries) : entries[i].day = day_idx}
    IN IF hits = {} THEN None
       ELSE Some(entries[CHOOSE i \in hits : \A j \in hits : j <= i].value)

\* sorted(itinerary, key=lambda d: d.day): a stable insertion sort
RECURSIVE InsertByDay(_, _)
InsertByDay(sorted, d) ==
    IF sorted = <<>> THEN <<d>>
    ELSE IF sorted[Len(sorted)].day <= d.day THEN Append(sorted, d)
    ELSE Append(InsertByDay(SubSeq(sorted, 1, Len(sorted) - 1), d), sorted[Len(sorted)])
RECURSIVE SortedByDayFrom(_, _)
SortedByDayFrom(sorted, rest) ==
    IF rest = <<>> THEN sorted
    ELSE SortedByDayFrom(InsertByDay(sorted, Head(rest)), Tail(rest))
Reverse(seq) == [i \in 1..Len(seq) |-> seq[Len(seq) + 1 - i]]
SortedByDayDescending(itinerary) == Reverse(SortedByDayFrom(<<>>, itinerary))
SortedByDay(itinerary) == SortedByDayFrom(<<>>, itinerary)

\* lines 231-239: budget.estimate_budget(BudgetRequest(days=...),
\* itinerary=[day.model_dump() for day in itinerary]) inside try/except; the
\* options of the dumped days are dicts
SynthesizedBudget(itinerary, days) ==
    LET budget_resp_model == estimate_budget(BudgetRequest(None, Some(days), None),
                                             Some(itinerary), TRUE)
    IN IF budget_resp_model = Raised THEN None ELSE budget_resp_model

\* the models of models/schemas.py the agent builds: plain data holders
DayPlan(day, start, end, distance_km, accommodation, weather, elevation, points_of_interest, visa, notes) ==
    [day |-> day, start |-> start, end |-> end, distance_km |-> distance_km,
     accommodation |-> accommodation, weather |-> weather, elevation |-> elevation,
     points_of_interest |-> points_of_interest, visa |-> visa, notes |-> notes]
TripPlan(total_distance_km, days, itinerary, budget) ==
    [total_distance_km |-> total_distance_km, days |-> days,
     itinerary |-> itinerary, budget |-> budget]

\* lines 140-142: the route output the plan is anchored on, None when Plan
\* holds none
RouteDataLast(route_entry) ==
    IF route_entry.kind = "absent" THEN None
    ELSE Some(route_entry.items[Len(route_entry.items)])
RouteData(route_entry) ==
    IF route_entry.kind = "absent" THEN None
    ELSE Some(route_entry.items[1])

\* lines 143-144: what is returned without a route output
WithoutRouteEmptyTrip == Some(TripPlan(0, 0, <<>>, None))
WithoutRoute == None

\* _build_trip_plan(plan)
BuildTripPlan(p) ==
    LET route_found == RouteData(p["get_route"])
    IN IF route_found = None THEN WithoutRoute
       ELSE
       LET route_data == route_found.value
           segments == route_data.segments
           accom_by_day == ItemEntries(AsList(p["find_accommodation"]), "options")
           weather_by_day == NestedEntries(AsList(p["get_weather"]), "daily")
           elevation_by_day == NestedEntries(AsList(p["get_elevation_profile"]), "profile")
           poi_by_day == ItemEntries(AsList(p["get_points_of_interest"]), "pois")
           visa_data == p["check_visa_requirements"]
           visa_req == IF visa_data.kind = "bare"
                       THEN Some(visa_data.items[1].requirement) ELSE None
           budget_data == p["estimate_budget"]
           budget_resp == IF budget_data.kind = "bare"
                          THEN Some(budget_data.items[1]) ELSE None
           itinerary ==
               [i \in 1..Len(segments) |->
                  LET seg == segments[i]
                      day_idx == seg.day
                  IN DayPlan(day_idx, seg.start, seg.end, seg.distance_km,
                             ByDay(accom_by_day, day_idx),
                             ByDay(weather_by_day, day_idx),
                             ByDay(elevation_by_day, day_idx),
                             ByDay(poi_by_day, day_idx),
                             visa_req,
                             IF seg.notes = NoValue \/ seg.notes = ""
                             THEN "Continue along secondary roads."
                             ELSE seg.notes)]
       IN IF itinerary = <<>> THEN None
          ELSE Some(TripPlan(route_data.total_distance_km,
                             route_data.days,
                             SortedByDay(itinerary),
                             IF budget_resp = None
                             THEN SynthesizedBudget(itinerary, route_data.days)
                             ELSE budget_resp))

Assemble(p) ==
    /\ as_pc = "idle"
    /\ as_pc' = "assembled"
    /\ as_plan' = p
    /\ as_trip' = BuildTripPlan(p)
    /\ UNCHANGED <<as_adj, as_out>>
    /\ UNCHANGED <<mem_vars, loop_vars, fin_vars, turn_vars, tool_vars, stream_vars, chat_vars>>

\* weather and accommodation are called up to MaxAuxCalls times, the other
\* auxiliary tools at most once, the visa and budget tools up to twice
AssembleNext ==
    /\ as_pc = "idle"
    /\ \E routes \in PlanRoutes,
          accom \in DaySeqs(MaxAuxCalls), weather \in DaySeqs(MaxAuxCalls),
          elev \in DaySeqs(1), poi \in DaySeqs(1),
          visa \in 0..2, budget \in 0..2 :
           Assemble(PlanOf(routes, accom, weather, elev, poi, visa, budget))

InitAssemble == MemIdle /\ LoopInit /\ FinInit /\ TurnInit /\ ExtIdle
SpecAssemble == InitAssemble /\ [][AssembleNext]_vars

\* the days of a sequence of day-indexed records, in order
DaysOf(seq) == [i \in 1..Len(seq) |-> seq[i].day]
\* the route output the assembler reads
RouteOf(p) == p["get_route"].items[1]
\* the auxiliary outputs of the plan hold an entry of the day
HoldsDay(p, tool_name, day) ==
    LET items == p[tool_name].items
    IN IF tool_name = "get_weather"
       THEN \E i \in 1..Len(items) : \E j \in 1..Len(items[i].daily) : items[i].daily[j].day = day
       ELSE IF tool_name = "get_elevation_profile"
       THEN \E i \in 1..Len(items) : \E j \in 1..Len(items[i].profile) : items[i].profile[j].day = day
       ELSE \E i \in 1..Len(items) : items[i].day = day
IsSet(field) == field.kind = "value"

\* C11: every TripPlan built by the assembler has an itinerary sorted
\* ascending by day whose days are exactly the days of the segments of the
\* route output, one DayPlan per segment
C11_ItineraryFollowsRoute ==
    (as_pc = "assembled" /\ as_trip # None) =>
        LET itinerary == as_trip.value.itinerary
        IN /\ \A i \in 1..(Len(itinerary) - 1) : itinerary[i].day <= itinerary[i + 1].day
           /\ Len(itinerary) = Len(RouteOf(as_plan).segments)
           /\ DaysOf(itinerary) = DaysOf(RouteOf(as_plan).segments)

\* a plan with two route outputs and auxiliary outputs of day 4 was
\* assembled: the itinerary has the three days of the first route output
C11_Witness ==
    /\ as_pc = "assembled"
    /\ as_plan["get_route"].kind = "list"
    /\ HoldsDay(as_plan, "get_weather", 4)
    /\ as_trip # None
    /\ DaysOf(as_trip.value.itinerary) = <<1, 2, 3>>

\* C12: in an assembled TripPlan the accommodation, weather, elevation or
\* points-of-interest field of a day is set exactly when the accumulated
\* outputs of that tool hold an entry of that day; missing auxiliary data
\* never prevents assembly
C12_AuxiliaryByDay ==
    as_pc = "assembled" =>
        /\ as_plan["get_route"].kind # "absent" => as_trip # None
        /\ as_trip # None =>
             \A i \in 1..Len(as_trip.value.itinerary) :
                LET d == as_trip.value.itinerary[i]
                IN /\ IsSet(d.accommodation) <=> HoldsDay(as_plan, "find_accommodation", d.day)
                   /\ IsSet(d.weather) <=> HoldsDay(as_plan, "get_weather", d.day)
                   /\ IsSet(d.elevation) <=> HoldsDay(as_plan, "get_elevation_profile", d.day)
                   /\ IsSet(d.points_of_interest)
                        <=> HoldsDay(as_plan, "get_points_of_interest", d.day)

\* a route of days 1, 2, 3 and weather of day 2 only: three DayPlans, the
\* weather set on day 2 only and no other auxiliary field set
C12_Witness ==
    /\ as_pc = "assembled"
    /\ as_trip # None
    /\ DaysOf(as_trip.value.itinerary) = <<1, 2, 3>>
    /\ as_plan["get_weather"].kind = "bare"
    /\ as_plan["find_accommodation"].kind = "absent"
    /\ as_plan["get_elevation_profile"].kind = "absent"
    /\ as_plan["get_points_of_interest"].kind = "absent"
    /\ IsSet(as_trip.value.itinerary[2].weather)
    /\ as_trip.value.itinerary[2].weather.value.day = 2
    /\ ~IsSet(as_trip.value.itinerary[1].weather)
    /\ ~IsSet(as_trip.value.itinerary[3].weather)

\* the visa requirements of the visa outputs of a plan
VisaRequirements(p) ==
    LET items == p["check_visa_requirements"].items
    IN { Some(items[i].requirement) : i \in 1..Len(items) }
\* the budget outputs of a plan
BudgetOutputs(p) ==
    LET items == p["estimate_budget"].items
    IN { Some(items[i]) : i \in 1..Len(items) }

\* C23: when a TripPlan is assembled from a Plan holding a visa output, every
\* DayPlan carries the visa requirement, and from a Plan holding a budget
\* output, the budget of the TripPlan is a budget output of the Plan,
\* however many times the visa or budget tool succeeded
C23_VisaAndBudgetAttached ==
    (as_pc = "assembled" /\ as_trip # None) =>
        /\ as_plan["check_visa_requirements"].kind # "absent" =>
             \A i \in 1..Len(as_trip.value.itinerary) :
                as_trip.value.itinerary[i].visa \in VisaRequirements(as_plan)
        /\ as_plan["estimate_budget"].kind # "absent" =>
             as_trip.value.budget \in BudgetOutputs(as_plan)

\* the budget the estimator gives for the itinerary when it reads the prices
\* of the options of each day
BudgetOfItinerary(trip) ==
    estimate_budget(BudgetRequest(None, Some(trip.days), None), Some(trip.itinerary), FALSE)

\* C24: a TripPlan assembled from a Plan without a usable budget output
\* carries the budget synthesized from its itinerary: the lodging cost of a
\* day is the average price of its accommodation options, the nightly
\* default for a day without options
C24_BudgetSynthesized ==
    (as_pc = "assembled" /\ as_trip # None /\ as_plan["estimate_budget"].kind # "bare") =>
        as_trip.value.budget = BudgetOfItinerary(as_trip.value)

\* C33: the assembler returns no plan, and raises nothing, whenever Plan
\* holds no route output or its route output has no day segment, whatever
\* the other tools left in Plan
C33_NoRouteNoPlan ==
    (/\ as_pc = "assembled"
     /\ \/ as_plan["get_route"].kind = "absent"
        \/ RouteOf(as_plan).segments = <<>>) =>
        as_trip = None

\* a plan with accommodation, weather, visa and budget outputs but no route
\* output was assembled to no plan
C33_Witness ==
    /\ as_pc = "assembled"
    /\ as_plan["get_route"].kind = "absent"
    /\ as_plan["find_accommodation"].kind = "list"
    /\ as_plan["get_weather"].kind = "bare"
    /\ as_plan["check_visa_requirements"].kind = "bare"
    /\ as_plan["estimate_budget"].kind = "bare"
    /\ as_trip = None

\* the start, end, day and distance of a route segment or of a DayPlan
LegOf(d) == <<d.day, d.start, d.end, d.distance_km>>
\* Plan with its first route output only
FirstRouteOnly(p) ==
    [p EXCEPT !["get_route"] = [kind |-> "bare", items |-> <<p["get_route"].items[1]>>]]

\* C40: when Plan holds more than one route output, the legs, the total
\* distance and the day count of the TripPlan are those of the first route
\* output, and the TripPlan is the one assembled without the later route
\* outputs
C40_FirstRouteWins ==
    (as_pc = "assembled" /\ Len(as_plan["get_route"].items) > 1) =>
        LET first == as_plan["get_route"].items[1]
            trip == as_trip.value
        IN /\ as_trip # None
           /\ trip.total_distance_km = first.total_distance_km
           /\ trip.days = first.days
           /\ [i \in 1..Len(trip.itinerary) |-> LegOf(trip.itinerary[i])]
                = [i \in 1..Len(first.segments) |-> LegOf(first.segments[i])]
           /\ as_trip = BuildTripPlan(FirstRouteOnly(as_plan))

\* two route outputs of different lengths were accumulated and the trip has
\* the days of the first
C40_Witness ==
    /\ as_pc = "assembled"
    /\ Len(as_plan["get_route"].items) = 2
    /\ as_plan["get_route"].items[1].days # as_plan["get_route"].items[2].days
    /\ as_trip # None
    /\ as_trip.value.days = as_plan["get_route"].items[1].days
    /\ Len(as_trip.value.itinerary) = as_plan["get_route"].items[1].days

(***************************************************************************)
(* CyclingTripAgent._apply_adjustments (agent.py 90-133)                   *)
(***************************************************************************)
\* Adjustments.target_days: an int, or None
TargetDays == {-1, 0, 1, 2, 3, 5}
\* Adjustments.note_overrides: DayNoteOverride(day, notes) items
NoteOverrides ==
    { <<>>,
      <<[day |-> 2, notes |-> "Rest day."]>>,
      <<[day |-> 2, notes |-> "Rest day."], [day |-> 2, notes |-> "Short day."]>>,
      <<[day |-> 9, notes |-> "Rest day."]>> }
Adjustments ==
    [target_days : {None} \cup {Some(t) : t \in TargetDays},
     note_overrides : NoteOverrides]

\* s[:n] of a Python list: the first n elements for n >= 0, and s without
\* its last -n elements for n < 0
PySliceFirst(s, n) ==
    IF n >= 0 THEN SubSeq(s, 1, Min(n, Len(s)))
    ELSE SubSeq(s, 1, Max(Len(s) + n, 0))

\* lines 94-106: the notes of the days an override names are overwritten,
\* the last override of a day wins
NotesOverridden(itinerary, note_overrides) ==
    LET override_map == [i \in 1..Len(note_overrides) |->
                           [day |-> note_overrides[i].day,
                            value |-> note_overrides[i].notes]]
    IN [i \in 1..Len(itinerary) |->
          LET hit == ByDay(override_map, itinerary[i].day)
          IN IF hit = None THEN itinerary[i]
             ELSE [itinerary[i] EXCEPT !.notes = hit.value]]

GenericNote == "Additional day added per adjustments."

\* lines 111-126: the DayPlans appended for the days current+1..target
AddedDays(itinerary, current, target) ==
    LET last_end == IF itinerary # <<>> THEN itinerary[Len(itinerary)].end ELSE ""
        visa == IF itinerary # <<>> THEN itinerary[1].visa ELSE None
    IN [k \in 1..(target - current) |->
          DayPlan(current + k, last_end, last_end, 0, None, None, None, None,
                  visa, GenericNote)]

\* _apply_adjustments(trip_plan, adjustments)
apply_adjustments_DaysFirst(trip, adjustments) ==
    LET resized ==
            IF adjustments.target_days # None /\ adjustments.target_days.value # 0
            THEN LET target == adjustments.target_days.value
                     current == trip.days
                 IN IF target > current
                    THEN [trip EXCEPT
                            !.itinerary = @ \o AddedDays(@, current, target),
                            !.days = target]
                    ELSE IF target < current
                    THEN [trip EXCEPT
                            !.itinerary = PySliceFirst(@, target),
                            !.days = target]
                    ELSE trip
            ELSE trip
    IN IF adjustments.note_overrides # <<>>
       THEN [resized EXCEPT
               !.itinerary = NotesOverridden(@, adjustments.note_overrides)]
       ELSE resized
apply_adjustments(trip, adjustments) ==
    LET noted ==
            IF adjustments.note_overrides # <<>>
            THEN [trip EXCEPT
                    !.itinerary = NotesOverridden(@, adjustments.note_overrides)]
            ELSE trip
    IN IF adjustments.target_days # None /\ adjustments.target_days.value # 0
       THEN LET target == adjustments.target_days.value
                current == noted.days
            IN IF target > current
               THEN [noted EXCEPT
                       !.itinerary = @ \o AddedDays(@, current, target),
                       !.days = target]
               ELSE IF target < current
               THEN [noted EXCEPT
                       !.itinerary = PySliceFirst(@, target),
                       !.days = target]
               ELSE noted
       ELSE noted

\* the plans whose TripPlan the adjustments are applied to: a route of 1, 3
\* or 4 days, with or without the weather of day 2 and a visa output
AdjustedPlans ==
    { PlanOf(routes, <<>>, weather, <<>>, <<>>, visa, 0) :
        routes \in {r \in PlanRoutes : Len(r) = 1},
        weather \in {<<>>, <<2>>},
        visa \in 0..1 }

\* _finalize_response, lines 566 and 584-585: the TripPlan was assembled
AdjustInit ==
    /\ as_pc = "assembled"
    /\ as_plan \in AdjustedPlans
    /\ as_trip = BuildTripPlan(as_plan)
    /\ as_adj = <<>>
    /\ as_out = None

ApplyAdjustments(adjustments) ==
    /\ as_pc = "assembled"
    /\ as_trip # None
    /\ as_pc' = "adjusted"
    /\ as_adj' = adjustments
    /\ as_out' = Some(apply_adjustments(as_trip.value, adjustments))
    /\ UNCHANGED <<as_plan, as_trip>>
    /\ UNCHANGED <<mem_vars, loop_vars, fin_vars, turn_vars, tool_vars, stream_vars, chat_vars>>

AdjustNext == \E adjustments \in Adjustments : ApplyAdjustments(adjustments)

InitAdjust ==
    /\ MemIdle /\ LoopInit /\ FinInit /\ TurnInit
    /\ ToolIdle /\ StreamIdle /\ ChatIdle /\ AdjustInit
SpecAdjust == InitAdjust /\ [][AdjustNext]_vars

\* C13: adjustments with target_days = t on a TripPlan of n days: for t > n
\* the DayPlans of days n+1..t are appended, with distance 0.0, start and end
\* at the end of the previously last day and the generic note, and days = t;
\* for t < n only the first t DayPlans are kept and days = t
C13_TargetDaysApplied ==
    (as_pc = "adjusted" /\ as_adj.target_days # None) =>
        LET t == as_adj.target_days.value
            n == as_trip.value.days
            before == NotesOverridden(as_trip.value.itinerary, as_adj.note_overrides)
            after == as_out.value.itinerary
        IN /\ t > n =>
                /\ as_out.value.days = t
                /\ Len(after) = Len(before) + (t - n)
                /\ SubSeq(after, 1, Len(before)) = before
                /\ \A k \in 1..(t - n) :
                      LET d == after[Len(before) + k]
                      IN /\ d.day = n + k
                         /\ d.distance_km = 0
                         /\ d.start = before[Len(before)].end
                         /\ d.end = before[Len(before)].end
                         /\ d.notes = GenericNote
           /\ t < n =>
                /\ as_out.value.days = t
                /\ after = SubSeq(before, 1, t)

\* C20: after adjustments are applied, for any integer target_days and any
\* note overrides, the days field of the trip equals the number of DayPlans
\* of its itinerary
C20_DaysMatchItinerary ==
    as_pc = "adjusted" => as_out.value.days = Len(as_out.value.itinerary)

\* the notes an itinerary day has after the overrides: those of the last
\* override naming its day index, else its own
NotesAfterOverrides(day_plan, note_overrides) ==
    LET hits == {k \in 1..Len(note_overrides) : note_overrides[k].day = day_plan.day}
    IN  IF hits = {} THEN day_plan.notes
        ELSE note_overrides[CHOOSE k \in hits : \A j \in hits : k >= j].notes

\* C32: adjustments apply the note overrides before the day-count change:
\* every DayPlan of the assembled itinerary that is kept differs from the
\* assembled one in its notes only, which are those of the override naming
\* its day index if there is one; an override naming no assembled day is
\* ignored, so the days that target_days adds carry the generic note; and
\* Plan and the record of the assembled days are left as they were
C32_OverridesThenDays ==
    [][(as_pc = "assembled" /\ as_pc' = "adjusted") =>
          LET before == as_trip.value.itinerary
              after == as_out'.value.itinerary
              overrides == as_adj'.note_overrides
          IN /\ as_plan' = as_plan
             /\ \A i \in 1..Len(after) :
                   IF i <= Len(before)
                   THEN after[i] = [before[i] EXCEPT
                                      !.notes = NotesAfterOverrides(before[i], overrides)]
                   ELSE after[i].notes = GenericNote]_vars

\* a trip of one day grew to three days and the override of day 2, a day
\* that the growth created, was ignored
C32_Witness ==
    /\ as_pc = "adjusted"
    /\ as_trip.value.days = 1
    /\ as_adj.target_days = Some(3)
    /\ as_adj.note_overrides = <<[day |-> 2, notes |-> "Rest day."]>>
    /\ Len(as_out.value.itinerary) = 3
    /\ as_out.value.itinerary[2].notes = GenericNote

(***************************************************************************)
(* GET /chat/stream (api/main.py 55-95): the runner puts the progress      *)
(* events of agent.chat, the terminal event and the sentinel None on an    *)
(* unbounded queue; the generator of the response takes them off and       *)
(* yields them until it meets the sentinel.                                *)
(***************************************************************************)
\* progress events one turn gives
MaxProgress == 4

ProgressEvent(n) == [stage |-> "progress", n |-> n]
DoneEvent == [stage |-> "done", n |-> 0]
ErrorEvent == [stage |-> "error", n |-> 0]
Sentinel == [stage |-> "None", n |-> 0]
TerminalStages == {"done", "error"}

\* run_agent, lines 64-83, from the moment agent.chat returns or raises an
\* Exception: what is put on the queue, with no suspension in between
RunnerTailNoExcept(outcome) ==
    IF outcome = "returned" THEN <<DoneEvent, Sentinel>> ELSE <<Sentinel>>
RunnerTail(outcome) ==
    IF outcome = "returned" THEN <<DoneEvent, Sentinel>> ELSE <<ErrorEvent, Sentinel>>

StreamInit ==
    /\ s_run = "chat"
    /\ s_gen = "waiting"
    /\ s_queue = <<>>
    /\ s_emitted = <<>>
    /\ s_progress = <<>>

\* progress(evt), lines 60-61, called by _emit_progress inside agent.chat
EmitProgress ==
    /\ s_run = "chat"
    /\ Len(s_progress) < MaxProgress
    /\ LET evt == ProgressEvent(Len(s_progress) + 1)
       IN /\ s_queue' = Append(s_queue, evt)
          /\ s_progress' = Append(s_progress, evt)
    /\ UNCHANGED <<s_run, s_gen, s_emitted>>
    /\ UNCHANGED <<mem_vars, loop_vars, fin_vars, turn_vars, tool_vars, asm_vars, chat_vars>>

\* agent.chat returns or raises an Exception: lines 70-83
ChatEnds(outcome) ==
    /\ s_run = "chat"
    /\ s_run' = outcome
    /\ s_queue' = s_queue \o RunnerTail(outcome)
    /\ UNCHANGED <<s_gen, s_emitted, s_progress>>
    /\ UNCHANGED <<mem_vars, loop_vars, fin_vars, turn_vars, tool_vars, asm_vars, chat_vars>>

\* lines 88-91: the generator takes an event off the queue and yields it
GenYields ==
    /\ s_gen = "waiting"
    /\ s_queue # <<>>
    /\ Head(s_queue) # Sentinel
    /\ s_emitted' = Append(s_emitted, Head(s_queue))
    /\ s_queue' = Tail(s_queue)
    /\ UNCHANGED <<s_run, s_gen, s_progress>>
    /\ UNCHANGED <<mem_vars, loop_vars, fin_vars, turn_vars, tool_vars, asm_vars, chat_vars>>

\* lines 89-93: the generator meets the sentinel and ends; runner.cancel()
\* finds the runner finished
GenBreaks ==
    /\ s_gen = "waiting"
    /\ s_queue # <<>>
    /\ Head(s_queue) = Sentinel
    /\ s_gen' = "finished"
    /\ s_queue' = Tail(s_queue)
    /\ UNCHANGED <<s_run, s_emitted, s_progress>>
    /\ UNCHANGED <<mem_vars, loop_vars, fin_vars, turn_vars, tool_vars, asm_vars, chat_vars>>

\* the client goes away: the generator is closed where it is suspended and
\* its finally clause cancels the runner (line 93)
Disconnect ==
    /\ s_gen = "waiting"
    /\ s_gen' = "closed"
    /\ s_run' = IF s_run = "chat" THEN "cancelling" ELSE s_run
    /\ UNCHANGED <<s_queue, s_emitted, s_progress>>
    /\ UNCHANGED <<mem_vars, loop_vars, fin_vars, turn_vars, tool_vars, asm_vars, chat_vars>>

\* CancelledError is raised where agent.chat is suspended; it is no
\* Exception, so only the finally clause runs (lines 82-83)
RunnerCancelled ==
    /\ s_run = "cancelling"
    /\ s_run' = "cancelled"
    /\ s_queue' = Append(s_queue, Sentinel)
    /\ UNCHANGED <<s_gen, s_emitted, s_progress>>
    /\ UNCHANGED <<mem_vars, loop_vars, fin_vars, turn_vars, tool_vars, asm_vars, chat_vars>>

StreamNext ==
    \/ EmitProgress
    \/ \E outcome \in {"returned", "raised"} : ChatEnds(outcome)
    \/ GenYields
    \/ GenBreaks
    \/ Disconnect
    \/ RunnerCancelled

InitStream ==
    /\ MemIdle /\ LoopInit /\ FinInit /\ TurnInit
    /\ ToolIdle /\ AsmIdle /\ ChatIdle /\ StreamInit
SpecStream == InitStream /\ [][StreamNext]_vars

IsPrefix(a, b) == Len(a) <= Len(b) /\ a = SubSeq(b, 1, Len(a))
\* the positions of the terminal events in a sequence of events
TerminalAt(events) == {i \in 1..Len(events) : events[i].stage \in TerminalStages}

\* C16: a /chat/stream response carries the progress events of the turn in
\* the order they were produced and ends with exactly one terminal event,
\* "done" when the turn returned and "error" when it raised; no event
\* follows the terminal event
C16_StreamOrderAndTerminal ==
    /\ TerminalAt(s_emitted) \subseteq {Len(s_emitted)}
    /\ IsPrefix(SelectSeq(s_emitted, LAMBDA e : e.stage = "progress"), s_progress)
    /\ s_gen = "finished" =>
          /\ s_run \in {"returned", "raised"}
          /\ s_emitted = s_progress \o
                <<IF s_run = "returned" THEN DoneEvent ELSE ErrorEvent>>

\* the turn raised after two progress events, one of them still on the queue
\* when it raised: the response carried both and then the error event
C16_Witness ==
    /\ s_gen = "finished"
    /\ s_run = "raised"
    /\ s_emitted = <<ProgressEvent(1), ProgressEvent(2), ErrorEvent>>

(***************************************************************************)
(* CyclingTripAgent.chat with a progress callback (agent.py 63-72 and      *)
(* 617-676): the turns of one session, one after the other. Every turn is  *)
(* run once for each kind of callback, all runs being given the same model *)
(* and tool responses.                                                     *)
(***************************************************************************)
\* the turns of the session
MaxTurns == 2

\* progress_cb: no callback, one that returns, and ones that raise at every
\* call, at every other call, or at the last notification of the turn
CallbackKinds == {"none", "succeeds", "raises_always", "raises_odd", "raises_complete"}
\* the n-th call of the callback of a turn, made for the given stage, raises
CallbackRaises(k, n, stage) ==
    \/ k = "raises_always"
    \/ k = "raises_odd" /\ n % 2 = 1
    \/ k = "raises_complete" /\ stage = "complete"

\* a run of chat before its first turn
ChatRun0 ==
    [pc |-> "idle", turn |-> 0, round |-> 0, route |-> FALSE, succeeded |-> FALSE,
     attempts |-> 0, delivered |-> <<>>, history |-> <<>>, summary |-> NoValue,
     result |-> None, trace |-> <<>>]

\* _emit_progress(cb, payload): nothing without a callback; an exception of
\* the callback is caught and dropped
emit_progress_NoExcept(r, k, stage) ==
    IF k = "none" THEN r
    ELSE IF CallbackRaises(k, r.attempts + 1, stage)
         THEN [r EXCEPT !.attempts = @ + 1, !.pc = "raised"]
         ELSE [r EXCEPT !.attempts = @ + 1, !.delivered = Append(@, stage)]
emit_progress(r, k, stage) ==
    IF k = "none" THEN r
    ELSE IF CallbackRaises(k, r.attempts + 1, stage)
         THEN [r EXCEPT !.attempts = @ + 1]
         ELSE [r EXCEPT !.attempts = @ + 1, !.delivered = Append(@, stage)]

\* notifications in sequence; an exception that leaves chat ends the run
RECURSIVE EmitAll(_, _, _)
EmitAll(r, k, stages) ==
    IF stages = <<>> \/ r.pc = "raised" THEN r
    ELSE EmitAll(emit_progress(r, k, Head(stages)), k, Tail(stages))

\* the run goes on to its next await unless an exception left chat
Goto(r, pc, events) ==
    IF r.pc = "raised" THEN r ELSE [r EXCEPT !.pc = pc, !.trace = @ \o events]

\* line 389, plan = {}: whether Plan holds a route output when the loop
\* starts
PlanCarriedOver(r) == r.route
PlanAtLoopStart(r) == FALSE

\* the reply of the turn: the structured reply, or the text of the last
\* response when the structured call failed
ChatReply(st_ok) == IF st_ok THEN "r" ELSE "t"

\* chat, lines 628-632, and _run_tool_loop, lines 389-397: the context is
\* built and the first gateway request is awaited
chat_start(r, k) ==
    LET fresh == [r EXCEPT !.pc = "start", !.turn = @ + 1, !.round = 0,
                           !.route = PlanAtLoopStart(r), !.succeeded = FALSE,
                           !.attempts = 0, !.delivered = <<>>,
                           !.result = None, !.trace = <<>>]
    IN Goto(emit_progress(fresh, k, "start"), "llm", <<"context", "llm_call">>)

\* lines 398-433 and 525-557: the gateway request of the loop returned; a
\* tool is called, or the loop ends and the structured request is awaited
llm_returns(r, k, wants_tools) ==
    IF r.pc # "llm" THEN r
    ELSE LET a == emit_progress(r, k, "llm_response_received")
         IN IF a.pc = "raised" THEN a
            ELSE IF LoopContinues(a.round) /\ wants_tools
            THEN Goto(emit_progress([a EXCEPT !.round = @ + 1], k, "calling_tool"),
                      "tools", <<"tool_round">>)
            ELSE LET exits == IF LoopContinues(a.round) THEN <<"no_tool_calls">>
                              ELSE IF wants_tools THEN <<"dangling_tool_calls_stripped">>
                              ELSE <<>>
                 IN Goto(EmitAll(a, k, exits \o <<"tool_loop_complete", "parsing_structured">>),
                         "structured", <<"structured_call">>)

\* lines 395 and 522: _call_llm raised, the exception leaves chat
llm_raises_Swallowed(r, k) ==
    IF r.pc # "llm" THEN r
    ELSE [r EXCEPT !.pc = "structured", !.trace = @ \o <<"gateway_fault", "structured_call">>]
llm_raises(r, k) ==
    IF r.pc # "llm" THEN r
    ELSE [r EXCEPT !.pc = "fault", !.trace = @ \o <<"gateway_fault">>]

\* lines 455-522: the tool returned (a get_route output when route_ok) or
\* raised, and the next gateway request is awaited
tool_returns(r, k, route_ok) ==
    IF r.pc # "tools" THEN r
    ELSE Goto(emit_progress([r EXCEPT !.route = @ \/ route_ok, !.succeeded = @ \/ route_ok],
                            k, "tool_result"),
              "llm", <<"llm_call">>)

\* lines 558-676: the structured request returned or failed; the TripPlan is
\* assembled, the turn is written to Memory and chat returns
structured_returns(r, k, st_ok) ==
    IF r.pc # "structured" THEN r
    ELSE LET has_plan == r.route
             reply == ChatReply(st_ok)
             stored_utterance == [role |-> "user", text |-> UserText(r.turn)]
             stored_reply == [role |-> "assistant", text |-> reply]
             a == emit_progress(r, k, "assembling_trip_plan")
         IN IF a.pc = "raised" THEN a
            ELSE LET b == [a EXCEPT
                             !.history = HistoryAfterAppend(HistoryAfterAppend(@, stored_utterance),
                                                            stored_reply),
                             !.summary = IF has_plan THEN reply ELSE @,
                             !.trace = @ \o <<"finalize", "persist">>]
                     c == emit_progress(b, k, "complete")
                 IN IF c.pc = "raised" THEN c
                    ELSE [c EXCEPT !.pc = "done",
                                   !.result = Some([reply |-> reply, has_plan |-> has_plan])]

ChatInit == c_run = [k \in CallbackKinds |-> ChatRun0]

\* the run without a callback tells which step is next
ChatAt == c_run["none"].pc
ChatOthersUnchanged ==
    UNCHANGED <<mem_vars, loop_vars, fin_vars, turn_vars, tool_vars, asm_vars, stream_vars>>

ChatStarts ==
    /\ ChatAt \in {"idle", "done", "fault"}
    /\ c_run["none"].turn < MaxTurns
    /\ c_run' = [k \in CallbackKinds |-> chat_start(c_run[k], k)]
    /\ ChatOthersUnchanged

LlmReturns(wants_tools) ==
    /\ ChatAt = "llm"
    /\ c_run' = [k \in CallbackKinds |-> llm_returns(c_run[k], k, wants_tools)]
    /\ ChatOthersUnchanged

LlmRaises ==
    /\ ChatAt = "llm"
    /\ c_run' = [k \in CallbackKinds |-> llm_raises(c_run[k], k)]
    /\ ChatOthersUnchanged

ToolReturns(route_ok) ==
    /\ ChatAt = "tools"
    /\ c_run' = [k \in CallbackKinds |-> tool_returns(c_run[k], k, route_ok)]
    /\ ChatOthersUnchanged

StructuredReturns(st_ok) ==
    /\ ChatAt = "structured"
    /\ c_run' = [k \in CallbackKinds |-> structured_returns(c_run[k], k, st_ok)]
    /\ ChatOthersUnchanged

GatewayStep == LlmRaises \/ \E wants_tools \in BOOLEAN : LlmReturns(wants_tools)
ToolStep == \E route_ok \in BOOLEAN : ToolReturns(route_ok)
StructuredStep == \E st_ok \in BOOLEAN : StructuredReturns(st_ok)

ChatNext == ChatStarts \/ GatewayStep \/ ToolStep \/ StructuredStep

InitChat ==
    /\ MemInit /\ LoopInit /\ FinInit /\ TurnInit
    /\ ToolIdle /\ AsmIdle /\ StreamIdle /\ ChatInit
SpecChat == InitChat /\ [][ChatNext]_vars

\* every gateway request, tool call and structured request that is awaited
\* returns or raises
SpecChatFair ==
    InitChat /\ [][ChatNext]_vars
    /\ WF_vars(GatewayStep) /\ WF_vars(ToolStep) /\ WF_vars(StructuredStep)

\* what a turn leaves behind: how it ended, its result and the Memory
Outcome(r) == [pc |-> r.pc, result |-> r.result, history |-> r.history, summary |-> r.summary]

\* C34: for the same session state and the same model and tool responses,
\* the way the turn ends, its result and the history and state of the
\* session are the same without a progress callback, with one that returns
\* and with one that raises at some or all notifications
C34_ProgressDoesNotInfluence ==
    \A k \in CallbackKinds : Outcome(c_run[k]) = Outcome(c_run["none"])

\* a turn with two tool rounds and a TripPlan has returned; the callback
\* that always raises was called for every notification and received none,
\* the one that returns received them all
C34_Witness ==
    /\ c_run["none"].pc = "done"
    /\ c_run["none"].round = 2
    /\ c_run["none"].result.value.has_plan
    /\ c_run["raises_always"].attempts = c_run["succeeds"].attempts
    /\ c_run["raises_always"].delivered = <<>>
    /\ Len(c_run["succeeds"].delivered) = c_run["succeeds"].attempts
    /\ c_run["succeeds"].attempts >= 10
    /\ c_run["raises_odd"].delivered # <<>>
    /\ c_run["raises_complete"].pc = "done"

\* the stages of a turn whose loop ran n tool rounds, up to the point where
\* its last gateway request of the loop was sent
RECURSIVE StagesOfLoop(_)
StagesOfLoop(n) ==
    IF n = 0 THEN <<"context", "llm_call">>
    ELSE StagesOfLoop(n - 1) \o <<"tool_round", "llm_call">>
ChatAwaits == {"llm", "tools", "structured"}
ChatTerminal == {"done", "fault"}

\* a finished turn went through its stages in order
StagesInOrder(r) ==
    /\ r.pc = "done" =>
          /\ r.trace = StagesOfLoop(r.round) \o <<"structured_call", "finalize", "persist">>
          /\ r.result # None
    /\ r.pc = "fault" =>
          /\ r.trace = StagesOfLoop(r.round) \o <<"gateway_fault">>
          /\ r.result = None

\* C35: when every gateway and tool call returns or raises, a turn that was
\* started ends as DONE or with the gateway fault that left chat, which is
\* not retried; a turn that is DONE built its context, ran its tool rounds,
\* each followed by one gateway request, sent exactly one structured
\* request after the last of them, assembled and adjusted, and wrote to
\* Memory last
C35_TurnTerminatesInOrder ==
    /\ [](\A k \in CallbackKinds : StagesInOrder(c_run[k]))
    /\ \A k \in CallbackKinds :
          (c_run[k].pc \in ChatAwaits) ~> (c_run[k].pc \in ChatTerminal)

\* the second turn of a session is DONE after three tool rounds
C35_Witness ==
    /\ c_run["none"].pc = "done"
    /\ c_run["none"].turn = 2
    /\ c_run["none"].round = 3
    /\ Len(c_run["none"].trace) = 11

\* C39: the TripPlan of a turn comes from the tools that succeeded in that
\* turn only: a turn returns a TripPlan exactly when get_route succeeded
\* during it, whatever the earlier turns of the session produced
C39_PlanStartsEmpty ==
    \A k \in CallbackKinds :
        c_run[k].pc = "done" => (c_run[k].result.value.has_plan <=> c_run[k].succeeded)

\* the first turn of the session produced a TripPlan, whose summary is in
\* the session state; the second turn, with a tool round but no successful
\* get_route, returned none
C39_Witness ==
    /\ c_run["none"].pc = "done"
    /\ c_run["none"].turn = 2
    /\ c_run["none"].summary # NoValue
    /\ c_run["none"].round >= 1
    /\ ~c_run["none"].succeeded
    /\ ~c_run["none"].result.value.has_plan
====
